---- MODULE Spec2Model ----
(***************************************************************************)
(* Smart-Document-Assistant: the offset-preserving ingestion pipeline      *)
(* (extractors, chunker, chunk merger), the citation reconstruction of     *)
(* RAGService.query and the upload / delete endpoints over the vector      *)
(* index.                                                                  *)
(*                                                                         *)
(* A Python str is a sequence of one-character strings.                    *)
(***************************************************************************)
EXTENDS Integers, Sequences, FiniteSets, Bags, TLC

VARIABLES
    pc,         \* position of the pipeline run
    file,       \* the file handed to the extractor: [name, body, corrupt]
    chunker,    \* the IntelligentChunker: [chunk_size, chunk_overlap]
    segments,   \* List[TextSegment] produced by extraction
    chunks,     \* List[DocumentChunk] produced by chunk_segments
    outcome,    \* what the last extractor-registry call returned or raised
    index,      \* the Chroma collection: a set of [id, page_content, metadata]
    upload_dir, \* the files in settings.upload_dir: <<document_id, ext>>
    next_id,    \* the next fresh uuid4
    response,   \* what the last request returned, with what it retrieved;
                \* none while a handler runs
    before,     \* index and upload_dir as the request last answered found
                \* them: when it arrived if it was refused, when its
                \* handler went on after the read otherwise
    reading,    \* the uploads waiting in await file.read(): a bag of
                \* [file, too_big, arrived], one copy for each coroutine;
                \* arrived is what an upload that will be refused found
    handler,    \* the request handler the server is running and the line
                \* it stands at, with its local variables and what it found
    script,     \* the line clear_database() stands at, "" when it is not
                \* running
    uploads_exists, \* whether the directory ./uploads is there
    heap,       \* the DocumentChunk objects merging works on, by reference
    sorted_chunks, \* merge_overlapping_chunks: the sorted list of references
    merged,     \* merge_overlapping_chunks: the list of retained references
    position,   \* merge_overlapping_chunks: where the loop stands
    step,       \* the chunks the call was given and what the last loop
                \* iteration met, as it met it
    returned    \* what each merge_overlapping_chunks call returned, by value

pipeVars == <<pc, file, chunker, segments, chunks, outcome>>
appVars == <<index, upload_dir, next_id, response, before, reading, handler,
            script, uploads_exists>>
mergeVars == <<heap, sorted_chunks, merged, position, step, returned>>

vars == <<pc, file, chunker, segments, chunks, outcome,
          index, upload_dir, next_id, response, before, reading, handler,
          script, uploads_exists,
          heap, sorted_chunks, merged, position, step, returned>>

(***************************************************************************)
(* Bounds of the model.                                                    *)
(***************************************************************************)
MaxTextLen == 5
MaxSegText == 4

(***************************************************************************)
(* Characters and Python str operations.                                   *)
(***************************************************************************)
NL == "\n"
SP == " "
Whitespace == {SP, NL}

Alphabet == {"a", "b", SP, NL}

\* every str over `alphabet` of length lo..hi
Strings(alphabet, lo, hi) == UNION {[1..n -> alphabet] : n \in lo..hi}

\* [c] * n
Repeat(c, n) == [i \in 1..n |-> c]

\* str.find(needle): the lowest 0-based index of needle in hay, or -1
Find(hay, needle) ==
    LET hits == {i \in 0..(Len(hay) - Len(needle)) :
                    SubSeq(hay, i + 1, i + Len(needle)) = needle}
    IN IF hits = {} THEN -1 ELSE CHOOSE i \in hits : \A j \in hits : i <= j

\* hay[n:]
From(hay, n) == SubSeq(hay, n + 1, Len(hay))

\* hay[:n]
Upto(hay, n) == SubSeq(hay, 1, IF n < Len(hay) THEN n ELSE Len(hay))

\* str.strip(): leading and trailing whitespace removed
Strip(s) ==
    LET keep == {i \in 1..Len(s) : s[i] \notin Whitespace}
    IN IF keep = {} THEN <<>>
       ELSE SubSeq(s, CHOOSE i \in keep : \A j \in keep : i <= j,
                      CHOOSE i \in keep : \A j \in keep : i >= j)

RECURSIVE Split(_, _)
\* str.split(sep) for a non-empty sep: left to right, non-overlapping,
\* empty pieces kept
Split(text, sep) ==
    LET p == Find(text, sep)
    IN IF p = -1 THEN <<text>>
       ELSE <<Upto(text, p)>> \o Split(From(text, p + Len(sep)), sep)

RECURSIVE Concat(_)
\* "".join(parts)
Concat(parts) ==
    IF parts = <<>> THEN <<>> ELSE Head(parts) \o Concat(Tail(parts))

RECURSIVE SumLen(_)
SumLen(parts) ==
    IF parts = <<>> THEN 0 ELSE Len(Head(parts)) + SumLen(Tail(parts))

\* [s for s in parts if s != ""]
NonEmpty(parts) == SelectSeq(parts, LAMBDA s : s # <<>>)

(***************************************************************************)
(* RecursiveCharacterTextSplitter as the chunker configures it:            *)
(* keep_separator = True, strip_whitespace = True, length_function = len.  *)
(***************************************************************************)
Separators == << <<NL, NL>>, <<NL>>, <<".", SP>>, <<SP>>, <<>> >>

\* _split_text_with_regex(text, separator, keep_separator=True): each
\* separator stays at the start of the piece that follows it
split_text_with_regex(text, separator) ==
    IF separator = <<>>
    THEN [i \in 1..Len(text) |-> <<text[i]>>]
    ELSE LET parts == Split(text, separator)
         IN NonEmpty(<<parts[1]>> \o
                     [i \in 1..(Len(parts) - 1) |-> separator \o parts[i + 1]])

\* TextSplitter._join_docs with separator "": None is the empty str here
join_docs(docs) == Strip(Concat(docs))

RECURSIVE pop_overlap_below(_, _, _, _)
\* the while loop dropping pieces until less than the overlap is left
pop_overlap_below(self, current_doc, total, len) ==
    IF (total >= self.chunk_overlap /\ total > 0)
       \/ (total + len > self.chunk_size /\ total > 0)
    THEN pop_overlap_below(self, Tail(current_doc),
                           total - Len(Head(current_doc)), len)
    ELSE current_doc

RECURSIVE pop_overlap(_, _, _, _)
\* the while loop of _merge_splits: drop leading pieces of current_doc until
\* what is left fits the overlap and leaves room for the next piece
pop_overlap(self, current_doc, total, len) ==
    IF total > self.chunk_overlap
       \/ (total + len > self.chunk_size /\ total > 0)
    THEN pop_overlap(self, Tail(current_doc),
                     total - Len(Head(current_doc)), len)
    ELSE current_doc

RECURSIVE merge_loop(_, _, _, _)
merge_loop(self, splits, current_doc, docs) ==
    IF splits = <<>>
    THEN IF join_docs(current_doc) # <<>>
         THEN docs \o <<join_docs(current_doc)>> ELSE docs
    ELSE LET d == Head(splits)
             total == SumLen(current_doc)
             full == total + Len(d) > self.chunk_size /\ current_doc # <<>>
             kept == IF full THEN pop_overlap(self, current_doc, total, Len(d))
                     ELSE current_doc
             out == IF full /\ join_docs(current_doc) # <<>>
                    THEN docs \o <<join_docs(current_doc)>> ELSE docs
         IN merge_loop(self, Tail(splits), kept \o <<d>>, out)

\* TextSplitter._merge_splits(splits, separator="")
merge_splits(self, splits) == merge_loop(self, splits, <<>>, <<>>)

\* the separator _split_text picks: the index of the first one that is ""
\* or occurs in the text
pick_separator(text, separators) ==
    LET ok == {i \in 1..Len(separators) :
                  separators[i] = <<>> \/ Find(text, separators[i]) # -1}
    IN IF ok = {} THEN 0 ELSE CHOOSE i \in ok : \A j \in ok : i <= j

RECURSIVE split_rec(_, _, _)
RECURSIVE split_loop(_, _, _, _, _)
\* the for loop of _split_text over the pieces: short pieces are collected
\* and merged, a piece of chunk_size or more is split by the next separators
split_loop(self, splits, new_separators, good_splits, final_chunks) ==
    IF splits = <<>>
    THEN final_chunks \o
         (IF good_splits # <<>> THEN merge_splits(self, good_splits) ELSE <<>>)
    ELSE LET s == Head(splits)
         IN IF Len(s) < self.chunk_size
            THEN split_loop(self, Tail(splits), new_separators,
                            good_splits \o <<s>>, final_chunks)
            ELSE split_loop(self, Tail(splits), new_separators, <<>>,
                     final_chunks
                     \o (IF good_splits # <<>>
                         THEN merge_splits(self, good_splits) ELSE <<>>)
                     \o (IF new_separators = <<>> THEN <<s>>
                         ELSE split_rec(self, s, new_separators)))

\* RecursiveCharacterTextSplitter._split_text(text, separators)
split_rec(self, text, separators) ==
    LET i == pick_separator(text, separators)
        separator == IF i = 0 THEN separators[Len(separators)]
                     ELSE separators[i]
        new_separators == IF i = 0 \/ separators[i] = <<>> THEN <<>>
                          ELSE SubSeq(separators, i + 1, Len(separators))
    IN split_loop(self, split_text_with_regex(text, separator),
                  new_separators, <<>>, <<>>)

\* self.splitter.split_text(text)
split_text(self, text) == split_rec(self, text, Separators)

(***************************************************************************)
(* IntelligentChunker.                                                     *)
(***************************************************************************)
DefaultChunkSize == 1000
DefaultChunkOverlap == 200

\* an int argument left at its default None
NoneInt == -1

\* x or default
OrDefault(x, default) == IF x = NoneInt \/ x = 0 THEN default ELSE x

\* IntelligentChunker.__init__(chunk_size, chunk_overlap)
IntelligentChunker(chunk_size, chunk_overlap) ==
    [chunk_size |-> OrDefault(chunk_size, DefaultChunkSize),
     chunk_overlap |-> OrDefault(chunk_overlap, DefaultChunkOverlap)]

\* f"{document_id}_chunk_{chunk_index}"
ChunkId(document_id, chunk_index) == <<document_id, "_chunk_", chunk_index>>

\* the offset moved to where chunk_text was found, its length not added
next_offset_at_position(text, segment_char_offset, chunk_text) ==
    LET chunk_position == Find(From(text, segment_char_offset), chunk_text)
    IN IF chunk_position # -1
       THEN segment_char_offset + chunk_position
       ELSE segment_char_offset + Len(chunk_text) - 1

\* lines 118-123: the segment offset after chunk_text was emitted at offset
next_offset(text, segment_char_offset, chunk_text) ==
    LET chunk_position == Find(From(text, segment_char_offset), chunk_text)
    IN IF chunk_position # -1
       THEN segment_char_offset + chunk_position + Len(chunk_text)
       ELSE segment_char_offset + Len(chunk_text)

RECURSIVE offset_before(_, _, _)
\* segment_char_offset when the i-th chunk text of the segment is reached
offset_before(text, segment_chunks, i) ==
    IF i = 1 THEN 0
    ELSE next_offset(text, offset_before(text, segment_chunks, i - 1),
                     segment_chunks[i - 1])

\* lines 91-92
absolute_char_start(segment, segment_char_offset) ==
    segment.char_start + segment_char_offset

\* lines 91-114: the DocumentChunk built for one chunk text
DocumentChunk(segment, chunk_text, segment_char_offset, chunk_index, document_id, filename) ==
    LET start == absolute_char_start(segment, segment_char_offset)
        end == start + Len(chunk_text)
    IN [chunk_id |-> ChunkId(document_id, chunk_index),
        text |-> chunk_text,
        page_number |-> segment.page_number,
        char_start |-> start,
        char_end |-> end,
        document_id |-> document_id,
        chunk_index |-> chunk_index,
        metadata |-> [filename |-> filename,
                      document_id |-> document_id,
                      page |-> segment.page_number,
                      char_start |-> start,
                      char_end |-> end,
                      chunk_id |-> ChunkId(document_id, chunk_index)]]

\* the inner loop (lines 84-123) over one segment, chunk_index counting on
\* from first_index
chunk_segment(self, segment, first_index, document_id, filename) ==
    LET segment_chunks == split_text(self, segment.text)
    IN [i \in 1..Len(segment_chunks) |->
           DocumentChunk(segment, segment_chunks[i],
                         offset_before(segment.text, segment_chunks, i),
                         first_index + i - 1, document_id, filename)]

RECURSIVE chunk_loop_reset(_, _, _, _, _)
\* chunk_loop with the index starting again at 0 for every segment
chunk_loop_reset(self, segs, chunk_index, document_id, filename) ==
    IF segs = <<>> THEN <<>>
    ELSE chunk_segment(self, Head(segs), chunk_index, document_id, filename)
         \o chunk_loop_reset(self, Tail(segs), 0, document_id, filename)

\* the segments chunked as one: their texts joined and split together, on
\* the page of the first
chunk_loop_joined(self, segs, chunk_index, document_id, filename) ==
    IF segs = <<>> THEN <<>>
    ELSE chunk_segment(self,
                       [Head(segs) EXCEPT
                           !.text = Concat([i \in 1..Len(segs) |-> segs[i].text])],
                       chunk_index, document_id, filename)

RECURSIVE chunk_loop(_, _, _, _, _)
\* the outer loop (lines 79-82, 114): chunk_index runs on across segments
chunk_loop(self, segs, chunk_index, document_id, filename) ==
    IF segs = <<>> THEN <<>>
    ELSE LET made == chunk_segment(self, Head(segs), chunk_index,
                                   document_id, filename)
         IN made \o chunk_loop(self, Tail(segs), chunk_index + Len(made),
                               document_id, filename)

\* IntelligentChunker.chunk_segments(segments, document_id, filename)
chunk_segments(self, segs, document_id, filename) ==
    chunk_loop(self, segs, 0, document_id, filename)

(***************************************************************************)
(* IntelligentChunker.merge_overlapping_chunks.  The chunks are objects:   *)
(* h maps a reference to the DocumentChunk it points to, and the lists     *)
(* hold references, so that an assignment to last_merged.text is seen      *)
(* through every list that holds the object.                               *)
(***************************************************************************)
\* line 142: the sort key
SortKey(h, ref) == <<h[ref].page_number, h[ref].char_start>>

\* the order of Python tuples of two ints
KeyLess(a, b) == a[1] < b[1] \/ (a[1] = b[1] /\ a[2] < b[2])

RECURSIVE sorted(_, _)
\* line 142: sorted(chunks, key=...), a stable sort
sorted(refs, h) ==
    IF refs = <<>> THEN <<>>
    ELSE LET rest == sorted(Tail(refs), h)
             n == Cardinality({i \in 1..Len(rest) :
                                  KeyLess(SortKey(h, rest[i]),
                                          SortKey(h, Head(refs)))})
         IN SubSeq(rest, 1, n) \o <<Head(refs)>> \o SubSeq(rest, n + 1, Len(rest))

Min(a, b) == IF a < b THEN a ELSE b

\* lines 153-155
overlap_size(current_chunk, last_merged) ==
    Min(current_chunk.char_end, last_merged.char_end) - current_chunk.char_start

\* the test of line 158 met with equality as well
is_significant_ge(size, text) == size * 2 >= Len(text)

\* line 158: overlap_size > len(current_chunk.text) * 0.5
is_significant(size, text) == size * 2 > Len(text)

\* lines 150-158: whether the loop body merges current_chunk
merges(current_chunk, last_merged) ==
    /\ current_chunk.page_number = last_merged.page_number
    /\ current_chunk.char_start < last_merged.char_end
    /\ is_significant(overlap_size(current_chunk, last_merged),
                      current_chunk.text)

\* lines 147-164: one iteration of the loop, on the objects of h
merge_body(h, merged_refs, current_ref) ==
    LET last_ref == merged_refs[Len(merged_refs)]
        current_chunk == h[current_ref]
        last_merged == h[last_ref]
    IN IF merges(current_chunk, last_merged)
       THEN [heap |-> [h EXCEPT
                         ![last_ref].text =
                             @ \o From(current_chunk.text,
                                       overlap_size(current_chunk, last_merged)),
                         ![last_ref].char_end = current_chunk.char_end],
             merged |-> merged_refs]
       ELSE [heap |-> h, merged |-> Append(merged_refs, current_ref)]

(***************************************************************************)
(* DocumentProcessor: the extractor registry and the per-format            *)
(* extractors.  A file is [name, body, corrupt]: name is the path's last   *)
(* component, body is what the format's reader yields (the text of a .txt  *)
(* file, the page texts of a PDF, the paragraphs of a DOCX, ...), corrupt  *)
(* says that reading it raises.                                            *)
(***************************************************************************)
TextSegment(text, page_number, char_start, char_end) ==
    [text |-> text, page_number |-> page_number,
     char_start |-> char_start, char_end |-> char_end]

UpperCase == <<"A", "B", "C", "D", "E", "F", "G", "H", "I", "J", "K", "L", "M",
               "N", "O", "P", "Q", "R", "S", "T", "U", "V", "W", "X", "Y", "Z">>
LowerCase == <<"a", "b", "c", "d", "e", "f", "g", "h", "i", "j", "k", "l", "m",
               "n", "o", "p", "q", "r", "s", "t", "u", "v", "w", "x", "y", "z">>

\* str.lower()
Lower(s) ==
    [i \in 1..Len(s) |->
        IF \E k \in 1..Len(UpperCase) : UpperCase[k] = s[i]
        THEN LowerCase[CHOOSE k \in 1..Len(UpperCase) : UpperCase[k] = s[i]]
        ELSE s[i]]

\* Path(name).suffix: from the last dot on, "" when there is none or the
\* last dot leads or ends the name
Suffix(name) ==
    LET dots == {i \in 1..Len(name) : name[i] = "."}
        last == CHOOSE i \in dots : \A j \in dots : i >= j
    IN IF dots = {} THEN <<>>
       ELSE IF 1 < last /\ last < Len(name) THEN From(name, last - 1)
       ELSE <<>>

ExtPdf == <<".", "p", "d", "f">>
ExtDocx == <<".", "d", "o", "c", "x">>
ExtDoc == <<".", "d", "o", "c">>
ExtTxt == <<".", "t", "x", "t">>
ExtMd == <<".", "m", "d">>
ExtPptx == <<".", "p", "p", "t", "x">>
ExtXlsx == <<".", "x", "l", "s", "x">>
ExtCsv == <<".", "c", "s", "v">>
ExtHtml == <<".", "h", "t", "m", "l">>
ExtHtm == <<".", "h", "t", "m">>
ExtRtf == <<".", "r", "t", "f">>
ExtOdt == <<".", "o", "d", "t">>

\* DocumentProcessor.SUPPORTED_EXTENSIONS, in dict order
SUPPORTED_EXTENSIONS ==
    <<ExtPdf, ExtDocx, ExtDoc, ExtTxt, ExtMd, ExtPptx, ExtXlsx, ExtCsv,
      ExtHtml, ExtHtm, ExtRtf, ExtOdt>>

\* DocumentProcessor.get_supported_extensions()
get_supported_extensions == SUPPORTED_EXTENSIONS

InList(x, list) == \E i \in 1..Len(list) : list[i] = x

\* DocumentProcessor.is_supported(file_path)
is_supported(name) == InList(Lower(Suffix(name)), SUPPORTED_EXTENSIONS)

\* the format routine extract_text_with_positions dispatches to, or
\* "unsupported" for the ValueError of its else branch
dispatch(name) ==
    LET ext == Lower(Suffix(name))
    IN IF ext = ExtPdf THEN "pdf"
       ELSE IF ext \in {ExtDocx, ExtDoc} THEN "docx"
       ELSE IF ext = ExtTxt THEN "txt"
       ELSE IF ext = ExtMd THEN "markdown"
       ELSE IF ext = ExtPptx THEN "pptx"
       ELSE IF ext \in {ExtXlsx, ExtCsv} THEN "excel"
       ELSE IF ext \in {ExtHtml, ExtHtm} THEN "html"
       ELSE "unsupported"

RECURSIVE txt_loop_text_len(_, _)
\* the paragraph loop with the offset moved by the stripped length
txt_loop_text_len(paragraphs, document_char_offset) ==
    IF paragraphs = <<>> THEN <<>>
    ELSE LET para == Head(paragraphs)
             text == Strip(para)
         IN IF text # <<>>
            THEN <<TextSegment(text, 1, document_char_offset,
                               document_char_offset + Len(text))>>
                 \o txt_loop_text_len(Tail(paragraphs),
                                      document_char_offset + Len(text) + 2)
            ELSE txt_loop_text_len(Tail(paragraphs), document_char_offset)

RECURSIVE txt_loop(_, _)
\* the paragraph loop of _extract_from_txt and _extract_from_markdown: the
\* offset moves only past a paragraph that was emitted
txt_loop(paragraphs, document_char_offset) ==
    IF paragraphs = <<>> THEN <<>>
    ELSE LET para == Head(paragraphs)
             text == Strip(para)
         IN IF text # <<>>
            THEN <<TextSegment(text, 1, document_char_offset,
                               document_char_offset + Len(text))>>
                 \o txt_loop(Tail(paragraphs),
                             document_char_offset + Len(para) + 2)
            ELSE txt_loop(Tail(paragraphs), document_char_offset)

\* DocumentProcessor._extract_from_txt
extract_from_txt(content) ==
    [segments |-> txt_loop(Split(content, <<NL, NL>>), 0),
     metadata |-> [page_count |-> 1, total_chars |-> Len(content),
                   file_type |-> "txt"]]

\* DocumentProcessor._extract_from_markdown: the segments come from the raw
\* markdown, split as for plain text
extract_from_markdown(md_content) ==
    [segments |-> txt_loop(Split(md_content, <<NL, NL>>), 0),
     metadata |-> [page_count |-> 1, total_chars |-> Len(md_content),
                   file_type |-> "markdown"]]

RECURSIVE pdf_para_loop(_, _, _, _)
\* the paragraph loop of one PDF page: every paragraph, emitted or not,
\* moves the page offset by its length + 2
pdf_para_loop(paragraphs, page_num, document_char_offset, page_char_offset) ==
    IF paragraphs = <<>> THEN <<>>
    ELSE LET para == Head(paragraphs)
             rest == pdf_para_loop(Tail(paragraphs), page_num,
                                   document_char_offset,
                                   page_char_offset + Len(para) + 2)
         IN IF Strip(para) # <<>>
            THEN <<TextSegment(Strip(para), page_num,
                               document_char_offset + page_char_offset,
                               document_char_offset + page_char_offset
                                   + Len(para))>> \o rest
            ELSE rest

RECURSIVE pdf_page_loop_same_offset(_, _, _)
\* the page loop without document_char_offset += len(page_text)
pdf_page_loop_same_offset(pages, page_num, document_char_offset) ==
    IF page_num > Len(pages) THEN <<>>
    ELSE LET page_text == pages[page_num]
         IN IF page_text = <<>>
            THEN pdf_page_loop_same_offset(pages, page_num + 1,
                                           document_char_offset)
            ELSE pdf_para_loop(Split(page_text, <<NL, NL>>), page_num,
                               document_char_offset, 0)
                 \o pdf_page_loop_same_offset(pages, page_num + 1,
                                              document_char_offset)

RECURSIVE pdf_page_loop_separated(_, _, _)
\* the page loop counting a paragraph separator after every page
pdf_page_loop_separated(pages, page_num, document_char_offset) ==
    IF page_num > Len(pages) THEN <<>>
    ELSE LET page_text == pages[page_num]
         IN IF page_text = <<>>
            THEN pdf_page_loop_separated(pages, page_num + 1,
                                         document_char_offset)
            ELSE pdf_para_loop(Split(page_text, <<NL, NL>>), page_num,
                               document_char_offset, 0)
                 \o pdf_page_loop_separated(pages, page_num + 1,
                                            document_char_offset
                                                + Len(page_text) + 2)

RECURSIVE pdf_page_loop(_, _, _)
\* the page loop of _extract_from_pdf: a page without text is skipped
pdf_page_loop(pages, page_num, document_char_offset) ==
    IF page_num > Len(pages) THEN <<>>
    ELSE LET page_text == pages[page_num]
         IN IF page_text = <<>>
            THEN pdf_page_loop(pages, page_num + 1, document_char_offset)
            ELSE pdf_para_loop(Split(page_text, <<NL, NL>>), page_num,
                               document_char_offset, 0)
                 \o pdf_page_loop(pages, page_num + 1,
                                  document_char_offset + Len(page_text))

\* DocumentProcessor._extract_from_pdf
extract_from_pdf(pages) ==
    [segments |-> pdf_page_loop(pages, 1, 0),
     metadata |-> [page_count |-> Len(pages), total_chars |-> SumLen(pages),
                   file_type |-> "pdf"]]

RECURSIVE unit_loop(_, _, _, _)
\* the loop shared by the DOCX, PPTX and HTML extractors over texts already
\* stripped: an accepted unit moves the offset by its length + 2; page_step
\* is 1 where the unit number is the page (slides) and 0 where the page
\* stays 1
unit_loop(texts, unit_num, page_step, document_char_offset) ==
    IF unit_num > Len(texts) THEN <<>>
    ELSE LET text == texts[unit_num]
         IN IF text # <<>>
            THEN <<TextSegment(text, IF page_step = 1 THEN unit_num ELSE 1,
                               document_char_offset,
                               document_char_offset + Len(text))>>
                 \o unit_loop(texts, unit_num + 1, page_step,
                              document_char_offset + Len(text) + 2)
            ELSE unit_loop(texts, unit_num + 1, page_step,
                           document_char_offset)

RECURSIVE total_after(_)
\* document_char_offset after the accepted units
total_after(texts) ==
    IF texts = <<>> THEN 0
    ELSE (IF Head(texts) # <<>> THEN Len(Head(texts)) + 2 ELSE 0)
         + total_after(Tail(texts))

\* DocumentProcessor._extract_from_docx over doc.paragraphs
extract_from_docx(paragraphs) ==
    LET texts == [i \in 1..Len(paragraphs) |-> Strip(paragraphs[i])]
    IN [segments |-> unit_loop(texts, 1, 0, 0),
        metadata |-> [page_count |-> 1, total_chars |-> total_after(texts),
                      file_type |-> "docx"]]

RECURSIVE Join(_, _)
\* sep.join(parts)
Join(sep, parts) ==
    IF parts = <<>> THEN <<>>
    ELSE IF Len(parts) = 1 THEN parts[1]
    ELSE parts[1] \o sep \o Join(sep, Tail(parts))

\* DocumentProcessor._extract_from_pptx over the shape texts of each slide
extract_from_pptx(slides) ==
    LET texts == [i \in 1..Len(slides) |-> Strip(Join(<<NL>>, slides[i]))]
    IN [segments |-> unit_loop(texts, 1, 1, 0),
        metadata |-> [page_count |-> Len(slides),
                      total_chars |-> total_after(texts),
                      file_type |-> "pptx"]]

\* DocumentProcessor._extract_from_html over the data nodes the parser
\* reports: [data, in_script_or_style]
extract_from_html(nodes) ==
    LET kept == SelectSeq(nodes, LAMBDA n : ~n.in_script_or_style
                                            /\ Strip(n.data) # <<>>)
        texts == [i \in 1..Len(kept) |-> Strip(kept[i].data)]
    IN [segments |-> unit_loop(texts, 1, 0, 0),
        metadata |-> [page_count |-> 1, total_chars |-> total_after(texts),
                      file_type |-> "html"]]

CellSep == <<SP, "|", SP>>
SheetPrefix == <<"S", "h", "e", "e", "t", ":", SP>>

\* str(cell) if cell is not None else '': a cell is [is_none, str]
CellStr(cell) == IF cell.is_none THEN <<>> ELSE cell.str

\* ' | '.join(...) over the cells of one .xlsx row
xlsx_row_text(row) == Join(CellSep, [j \in 1..Len(row) |-> CellStr(row[j])])

\* ' | '.join(row) over the fields of one .csv row
csv_row_text(row) == Join(CellSep, row)

\* the row texts the row loops keep
kept_rows(row_texts) == SelectSeq(row_texts, LAMBDA row_text : Strip(row_text) # <<>>)

xlsx_rows(sheet) ==
    kept_rows([i \in 1..Len(sheet.rows) |-> xlsx_row_text(sheet.rows[i])])

RECURSIVE sheet_loop(_, _, _)
\* the sheet loop of _extract_from_excel for .xlsx
sheet_loop(sheets, sheet_num, document_char_offset) ==
    IF sheet_num > Len(sheets) THEN <<>>
    ELSE LET rows == xlsx_rows(sheets[sheet_num])
             combined_text == Join(<<NL>>, rows)
         IN IF rows # <<>>
            THEN <<TextSegment(SheetPrefix \o sheets[sheet_num].name
                                   \o <<NL>> \o combined_text,
                               sheet_num, document_char_offset,
                               document_char_offset + Len(combined_text))>>
                 \o sheet_loop(sheets, sheet_num + 1,
                               document_char_offset + Len(combined_text) + 2)
            ELSE sheet_loop(sheets, sheet_num + 1, document_char_offset)

RECURSIVE sheet_total(_, _)
sheet_total(sheets, sheet_num) ==
    IF sheet_num > Len(sheets) THEN 0
    ELSE LET rows == xlsx_rows(sheets[sheet_num])
         IN (IF rows # <<>> THEN Len(Join(<<NL>>, rows)) + 2 ELSE 0)
            + sheet_total(sheets, sheet_num + 1)

\* DocumentProcessor._extract_from_excel, .xlsx branch
extract_from_xlsx(sheets) ==
    [segments |-> sheet_loop(sheets, 1, 0),
     metadata |-> [page_count |-> Len(sheets),
                   total_chars |-> sheet_total(sheets, 1),
                   file_type |-> "xlsx"]]

\* DocumentProcessor._extract_from_excel, .csv branch
extract_from_csv(rows) ==
    LET kept == kept_rows([i \in 1..Len(rows) |-> csv_row_text(rows[i])])
        combined_text == Join(<<NL>>, kept)
    IN [segments |-> IF kept # <<>>
                     THEN <<TextSegment(combined_text, 1, 0, Len(combined_text))>>
                     ELSE <<>>,
        metadata |-> [page_count |-> 1, total_chars |-> 0,
                      file_type |-> "csv"]]

NoMetadata == [page_count |-> 0, total_chars |-> 0, file_type |-> ""]

\* DocumentProcessor.extract_text_with_positions(file_path): what it returns,
\* or the exception it raises ("ValueError" for an unsupported format,
\* "Exception" when the format's reader fails on the file)
extract_text_with_positions(f) ==
    LET routine == dispatch(f.name)
        got == CASE routine = "pdf" -> extract_from_pdf(f.body)
                 [] routine = "docx" -> extract_from_docx(f.body)
                 [] routine = "txt" -> extract_from_txt(f.body)
                 [] routine = "markdown" -> extract_from_markdown(f.body)
                 [] routine = "pptx" -> extract_from_pptx(f.body)
                 [] routine = "excel" ->
                        IF Lower(Suffix(f.name)) = ExtXlsx
                        THEN extract_from_xlsx(f.body)
                        ELSE extract_from_csv(f.body)
                 [] routine = "html" -> extract_from_html(f.body)
    IN IF routine = "unsupported"
       THEN [raised |-> "ValueError", segments |-> <<>>, metadata |-> NoMetadata]
       ELSE IF f.corrupt
       THEN [raised |-> "Exception", segments |-> <<>>, metadata |-> NoMetadata]
       ELSE [raised |-> "", segments |-> got.segments, metadata |-> got.metadata]

\* DocumentProcessor.validate_document(file_path)
validate_document(f) ==
    IF ~is_supported(f.name) THEN FALSE
    ELSE LET r == extract_text_with_positions(f)
         IN IF r.raised # "" THEN FALSE ELSE Len(r.segments) > 0

(***************************************************************************)
(* The chunker on its own: a segment list and a configuration are drawn,   *)
(* chunk_segments runs on them.                                            *)
(***************************************************************************)
\* chunk_size / chunk_overlap pairs the constructor accepts
Configs == {IntelligentChunker(3, 1), IntelligentChunker(4, 2)}

SegTexts == Strings(Alphabet, 1, MaxTextLen)
ShortTexts == Strings({"a", SP}, 1, MaxSegText)

\* texts without a separator, long enough for three chunks
LetterTexts == Strings({"a", "b"}, MaxTextLen + 1, MaxTextLen + 2)

\* one segment of any text, one of letters only, or two short ones on the
\* same or the next page
SegmentLists ==
    {<<TextSegment(t, 1, s, s + Len(t))>> : t \in SegTexts, s \in {0, 2}}
    \cup {<<TextSegment(t, 1, 0, Len(t))>> : t \in LetterTexts}
    \cup {<<TextSegment(t, 1, 0, Len(t)),
            TextSegment(u, p, Len(t) + 2, Len(t) + 2 + Len(u))>> :
            t \in ShortTexts, u \in ShortTexts, p \in {1, 2}}

NoFile == [name |-> <<>>, body |-> <<>>, corrupt |-> FALSE]
NoOutcome == [op |-> "", raised |-> "", value |-> FALSE]
NoResponse == [op |-> "", status |-> 0]

NoSnapshot == [index |-> {}, upload_dir |-> {}]

\* no request handler is running
NoHandler ==
    [op |-> "", pos |-> "", file |-> NoFile, document_id |-> 0,
     raised |-> "", exists |-> FALSE, found |-> NoSnapshot]

\* the services idle: nothing indexed, nothing uploaded, no request made
AppIdle ==
    /\ index = {}
    /\ upload_dir = {}
    /\ next_id = 1
    /\ response = NoResponse
    /\ before = [index |-> {}, upload_dir |-> {}]
    /\ reading = EmptyBag
    /\ handler = NoHandler
    /\ script = ""
    /\ uploads_exists = TRUE

NoStep == [taken |-> FALSE]

\* merge_overlapping_chunks not called
MergeIdle ==
    /\ heap = <<>>
    /\ sorted_chunks = <<>>
    /\ merged = <<>>
    /\ position = 0
    /\ step = NoStep
    /\ returned = <<>>

InitChunk ==
    /\ pc = "segmented"
    /\ file = NoFile
    /\ chunker \in Configs
    /\ segments \in SegmentLists
    /\ chunks = <<>>
    /\ outcome = NoOutcome
    /\ AppIdle
    /\ MergeIdle

\* rag_service.index_document step 2: IntelligentChunker.chunk_segments on
\* the extracted segments
ChunkSegments ==
    /\ pc = "segmented"
    /\ chunks' = chunk_segments(chunker, segments, "doc", file.name)
    /\ pc' = "chunked"
    /\ UNCHANGED <<file, chunker, segments, outcome>>
    /\ UNCHANGED appVars
    /\ UNCHANGED mergeVars

NextChunk == ChunkSegments

SpecChunk == InitChunk /\ [][NextChunk]_vars

(***************************************************************************)
(* merge_overlapping_chunks on a list of chunks, one loop iteration at a   *)
(* time.  The chunks are any DocumentChunk objects: their text need not be *)
(* as long as their range.                                                 *)
(***************************************************************************)
MaxChunks == 2
MaxPos == 2

Pages == {1, 2}
Letters == <<"a", "b", "c", "d">>

\* what a chunk is drawn from: page, range and length of text
Shapes ==
    {sh \in [page_number : Pages, char_start : 0..MaxPos, char_end : 0..MaxPos,
             len : 1..MaxPos] : sh.char_start < sh.char_end}

Shape(page_number, char_start, char_end, len) ==
    [page_number |-> page_number, char_start |-> char_start,
     char_end |-> char_end, len |-> len]

\* the k-th DocumentChunk of a list, of that shape
ChunkOfShape(k, sh) ==
    [DocumentChunk(TextSegment(<<>>, sh.page_number, sh.char_start,
                               sh.char_end),
                   [i \in 1..sh.len |-> Letters[k]], 0, k - 1, "doc", <<"f">>)
        EXCEPT !.char_end = sh.char_end, !.metadata.char_end = sh.char_end]

\* lists beyond the bounds: a chunk of 15 characters that starts 10 before
\* the end of the one before it, the same with 20 characters, three chunks
\* in a chain, a chunk that absorbs another after it was retained, and a
\* chunk inside the range of the one before it
ScenarioLists ==
    {<<Shape(1, 0, 20, 20), Shape(1, 10, 25, 15)>>,
     <<Shape(1, 0, 20, 20), Shape(1, 10, 30, 20)>>,
     <<Shape(1, 4, 8, 4), Shape(1, 0, 5, 5), Shape(1, 2, 6, 4)>>,
     <<Shape(1, 0, 3, 3), Shape(1, 1, 2, 3), Shape(1, 1, 3, 1)>>,
     <<Shape(1, 0, 20, 20), Shape(1, 5, 10, 5)>>}

ShapeLists == UNION {[1..n -> Shapes] : n \in 0..MaxChunks} \cup ScenarioLists

\* what chunk_segments returns for the two paragraphs of the text
\* "aaaaaaaaaa\n\nbbb" and of "aaaaaa\n\nb" under chunk_size 3 and
\* chunk_overlap 1
ChunkedLists ==
    {chunk_segments(IntelligentChunker(3, 1),
                    <<TextSegment(Repeat("a", n), 1, 0, n),
                      TextSegment(Repeat("b", m), 1, n + 2, n + 2 + m)>>,
                    "doc", <<"f">>) : n \in {6, 10}, m \in {1, 3}}

InitMerge ==
    /\ pc = "called"
    /\ file = NoFile
    /\ chunker = IntelligentChunker(NoneInt, NoneInt)
    /\ segments = <<>>
    /\ heap \in {[k \in 1..Len(shapes) |-> ChunkOfShape(k, shapes[k])] :
                    shapes \in ShapeLists} \cup ChunkedLists
    /\ chunks = [k \in 1..Len(heap) |-> k]
    /\ sorted_chunks = <<>>
    /\ merged = <<>>
    /\ position = 0
    /\ step = NoStep
    /\ returned = <<>>
    /\ outcome = NoOutcome
    /\ AppIdle

\* the chunks a list of references points to
Deref(h, refs) == [i \in 1..Len(refs) |-> h[refs[i]]]

\* lines 138-144: the empty list is returned at once; otherwise the list is
\* sorted and its first chunk retained
MergeOverlappingChunks ==
    /\ pc = "called"
    /\ IF chunks = <<>>
       THEN /\ pc' = "returned"
            /\ returned' = Append(returned, <<>>)
            /\ UNCHANGED <<sorted_chunks, merged, position>>
       ELSE /\ sorted_chunks' = sorted(chunks, heap)
            /\ merged' = <<sorted(chunks, heap)[1]>>
            /\ position' = 2
            /\ pc' = "merging"
            /\ UNCHANGED returned
    /\ step' = [taken |-> FALSE, called_with |-> Deref(heap, chunks)]
    /\ UNCHANGED <<file, chunker, segments, chunks, outcome, heap>>
    /\ UNCHANGED appVars

\* the effect of one iteration of the loop and what it met
Iterate(r) ==
    /\ heap' = r.heap
    /\ merged' = r.merged
    /\ step' = [taken |-> TRUE,
                called_with |-> step.called_with,
                current_ref |-> sorted_chunks[position],
                current_chunk |-> heap[sorted_chunks[position]],
                last_merged |-> heap[merged[Len(merged)]],
                merged |-> merged]

\* lines 146-164: one iteration of the loop
MergeIteration ==
    /\ pc = "merging"
    /\ position <= Len(sorted_chunks)
    /\ Iterate(merge_body(heap, merged, sorted_chunks[position]))
    /\ position' = position + 1
    /\ UNCHANGED <<pc, file, chunker, segments, chunks, outcome, sorted_chunks,
                   returned>>
    /\ UNCHANGED appVars

\* lines 166-167: the loop is over and merged is returned
MergeReturn ==
    /\ pc = "merging"
    /\ position > Len(sorted_chunks)
    /\ pc' = "returned"
    /\ returned' = Append(returned, Deref(heap, merged))
    /\ UNCHANGED <<file, chunker, segments, chunks, outcome>>
    /\ UNCHANGED <<heap, sorted_chunks, merged, position, step>>
    /\ UNCHANGED appVars

\* merge_overlapping_chunks(merge_overlapping_chunks(chunks)): the list the
\* first call returned is the argument of a second call
MergeAgain ==
    /\ pc = "returned"
    /\ Len(returned) = 1
    /\ chunks' = merged
    /\ pc' = "called"
    /\ UNCHANGED <<file, chunker, segments, outcome>>
    /\ UNCHANGED mergeVars
    /\ UNCHANGED appVars

NextMerge ==
    \/ MergeOverlappingChunks
    \/ MergeIteration
    \/ MergeReturn
    \/ MergeAgain

SpecMerge == InitMerge /\ [][NextMerge]_vars

(***************************************************************************)
(* The extractor registry on a file: is_supported, validate_document and   *)
(* extract_text_with_positions followed by chunking.                       *)
(***************************************************************************)
MaxContentLen == 6

FileName(ext) == <<"f">> \o ext

Contents == Strings({"a", SP, NL}, 0, MaxContentLen)

Cell(str) == [is_none |-> FALSE, str |-> str]
NoneCell == [is_none |-> TRUE, str |-> <<>>]

\* the units the readers of the other formats yield, at most MaxUnits of
\* them to a file: page texts, paragraphs, slides, sheets, rows, data nodes
MaxUnits == 2

UpTo(units, n) == UNION {[1..k -> units] : k \in 0..n}

ParaTexts == {<<>>, <<"a">>, <<SP, "a">>, <<"a", SP, "b">>, <<SP>>}
PageTexts == ParaTexts \cup {<<"a", NL, NL, "b">>, <<NL, NL, "a", SP>>,
                             <<"a", NL, NL, SP>>}
Slides == {<<>>, <<<<"a">>>>, <<<<"a">>, <<"b">>>>, <<<<SP>>, <<"a">>>>,
           <<<<SP>>>>}
Sheets ==
    {[name |-> <<"s">>, rows |-> rows] :
        rows \in {<<>>, <<<<Cell(<<"a">>), NoneCell>>>>,
                  <<<<NoneCell, NoneCell>>>>,
                  <<<<Cell(<<"a">>)>>, <<Cell(<<SP>>)>>, <<Cell(<<"b">>)>>>>}}
CsvRows == {<<>>, <<<<"a">>>>, <<<<"a">>, <<"b">>>>, <<<<SP>>>>, <<<<>>, <<>>>>}
Nodes == [data : {<<"a">>, <<SP, "a">>, <<SP>>}, in_script_or_style : BOOLEAN]

\* what the readers of the other formats yield
PdfBodies == {<< <<"a", NL, NL, "b">>, <<>>, <<SP, "a">> >>,
              << <<"a", "b">> >>, <<>>}
             \cup UpTo(PageTexts, MaxUnits)
DocxBodies == {<< <<"a", SP>>, <<SP>>, <<"b">> >>, <<>>}
              \cup UpTo(ParaTexts, MaxUnits)
PptxBodies == {<< <<<<"a">>, <<"b">>>>, <<>>, <<<<SP>>>> >>}
              \cup UpTo(Slides, MaxUnits)
XlsxBodies == {<<[name |-> <<"s">>,
                  rows |-> <<<<Cell(<<"a">>), NoneCell>>, <<NoneCell, NoneCell>>>>]>>,
               <<[name |-> <<"s">>, rows |-> <<>>]>>}
              \cup UpTo(Sheets, MaxUnits)
CsvBodies == {<< <<<<"a">>, <<"b">>>>, <<<<>>, <<>>>> >>, <<>>}
             \cup UpTo(CsvRows, MaxUnits)
HtmlBodies == {<<[data |-> <<SP, "a">>, in_script_or_style |-> FALSE],
                 [data |-> <<"b">>, in_script_or_style |-> TRUE]>>, <<>>}
              \cup UpTo(Nodes, MaxUnits)

File(name, body, corrupt) == [name |-> name, body |-> body, corrupt |-> corrupt]

\* "Alpha beta.\n\nGamma delta."
AlphaGamma ==
    <<"A", "l", "p", "h", "a", SP, "b", "e", "t", "a", ".", NL, NL,
      "G", "a", "m", "m", "a", SP, "d", "e", "l", "t", "a", ".">>

Files ==
    {File(FileName(ExtTxt), c, FALSE) : c \in Contents \cup {AlphaGamma}}
    \cup {File(FileName(e), c, k) :
            e \in {<<".", "T", "X", "T">>, ExtMd},
            c \in {<<>>, <<SP, "a">>, <<"a", NL, NL, NL, NL, "b">>},
            k \in BOOLEAN}
    \cup {File(FileName(e), b, k) :
            e \in {ExtPdf, <<".", "P", "d", "f">>}, b \in PdfBodies, k \in BOOLEAN}
    \cup {File(FileName(e), b, k) :
            e \in {ExtDocx, ExtDoc}, b \in DocxBodies, k \in BOOLEAN}
    \cup {File(FileName(ExtPptx), b, k) : b \in PptxBodies, k \in BOOLEAN}
    \cup {File(FileName(ExtXlsx), b, k) : b \in XlsxBodies, k \in BOOLEAN}
    \cup {File(FileName(ExtCsv), b, k) : b \in CsvBodies, k \in BOOLEAN}
    \cup {File(FileName(e), b, k) :
            e \in {ExtHtml, ExtHtm}, b \in HtmlBodies, k \in BOOLEAN}
    \cup {File(FileName(e), <<"a">>, k) :
            e \in {ExtRtf, ExtOdt, <<".", "R", "T", "F">>, <<".", "e", "x", "e">>,
                   <<>>, <<".">>, <<".", "t", "x", "t", ".", "b", "a", "k">>},
            k \in BOOLEAN}

InitExtract ==
    /\ pc = "file"
    /\ file \in Files
    /\ chunker \in Configs \cup {IntelligentChunker(NoneInt, NoneInt)}
    /\ segments = <<>>
    /\ chunks = <<>>
    /\ outcome = NoOutcome
    /\ AppIdle
    /\ MergeIdle

\* DocumentProcessor.is_supported(file_path)
IsSupported ==
    /\ pc = "file"
    /\ outcome' = [op |-> "is_supported", raised |-> "",
                   value |-> is_supported(file.name)]
    /\ pc' = "returned"
    /\ UNCHANGED <<file, chunker, segments, chunks>>
    /\ UNCHANGED appVars
    /\ UNCHANGED mergeVars

\* DocumentProcessor.validate_document(file_path)
ValidateDocument ==
    /\ pc = "file"
    /\ outcome' = [op |-> "validate_document", raised |-> "",
                   value |-> validate_document(file)]
    /\ pc' = "returned"
    /\ UNCHANGED <<file, chunker, segments, chunks>>
    /\ UNCHANGED appVars
    /\ UNCHANGED mergeVars

\* DocumentProcessor.extract_text_with_positions(file_path)
ExtractTextWithPositions ==
    /\ pc = "file"
    /\ LET r == extract_text_with_positions(file)
       IN /\ outcome' = [op |-> "extract_text_with_positions",
                         raised |-> r.raised, value |-> r.raised = ""]
          /\ segments' = r.segments
          /\ pc' = IF r.raised = "" THEN "segmented" ELSE "raised"
    /\ UNCHANGED <<file, chunker, chunks>>
    /\ UNCHANGED appVars
    /\ UNCHANGED mergeVars

NextExtract ==
    \/ IsSupported
    \/ ValidateDocument
    \/ ExtractTextWithPositions
    \/ ChunkSegments

SpecExtract == InitExtract /\ [][NextExtract]_vars

(***************************************************************************)
(* VectorStore over the Chroma collection.  Chroma, the embedding model    *)
(* and the language model are outside the repository: whether a call to    *)
(* one of them goes through, and what a search returns, is the             *)
(* environment's choice.                                                   *)
(***************************************************************************)
MaxUploads == 2
MaxCitations == 2

SeqRange(q) == {q[i] : i \in 1..Len(q)}

\* lines 71-80: what add_texts stores for one chunk
Entry(chunk) ==
    [id |-> chunk.chunk_id, page_content |-> chunk.text,
     metadata |-> chunk.metadata]

\* VectorStore.add_chunks(chunks): ok says the embedding and the upsert went
\* through
add_chunks(idx, new_chunks, ok) ==
    IF new_chunks = <<>> THEN [raised |-> FALSE, index |-> idx]
    ELSE IF ~ok THEN [raised |-> TRUE, index |-> idx]
    ELSE LET new == {Entry(c) : c \in SeqRange(new_chunks)}
         IN [raised |-> FALSE,
             index |-> {e \in idx : \A n \in new : n.id # e.id} \cup new]

\* delete_document with the where clause on the wrong metadata key
delete_document_by_page(idx, document_id, ok) ==
    IF ok
    THEN [success |-> TRUE,
          index |-> {e \in idx : e.metadata.page # document_id}]
    ELSE [success |-> FALSE, index |-> idx]

\* VectorStore.delete_document(document_id), which RAGService.delete_document
\* returns unchanged: ok says get_collection and delete went through
delete_document(idx, document_id, ok) ==
    IF ok
    THEN [success |-> TRUE,
          index |-> {e \in idx : e.metadata.document_id # document_id}]
    ELSE [success |-> FALSE, index |-> idx]

\* VectorStore.get_document_chunk_count(document_id)
get_document_chunk_count(idx, document_id, ok) ==
    IF ok
    THEN Cardinality({e \in idx : e.metadata.document_id = document_id})
    ELSE 0

\* VectorStore.list_documents()
list_documents(idx, ok) ==
    IF ok THEN {e.metadata.document_id : e \in idx} ELSE {}

\* lines 120-129: the DocumentChunk rebuilt from a stored entry
chunk_from_entry(doc) ==
    [chunk_id |-> doc.metadata.chunk_id,
     text |-> doc.page_content,
     page_number |-> doc.metadata.page,
     char_start |-> doc.metadata.char_start,
     char_end |-> doc.metadata.char_end,
     document_id |-> doc.metadata.document_id,
     chunk_index |-> 0,
     metadata |-> doc.metadata]

\* VectorStore.similarity_search: results is what
\* similarity_search_with_relevance_scores returned, [doc, score] each
similarity_search(results) ==
    [i \in 1..Len(results) |->
        [chunk |-> chunk_from_entry(results[i].doc), score |-> results[i].score]]

\* relevance scores in hundredths; the index may leave the range 0..1
Scores == {-50, 0, 75, 150}

\* what the index may return for a search of k entries under the filter
\* (document_id 0: no filter): k distinct matching entries, or all of them
\* when there are fewer, in any ranking, with any scores
SearchResults(idx, document_id, k) ==
    LET matching == {e \in idx : document_id = 0
                                 \/ e.metadata.document_id = document_id}
        n == Min(k, Cardinality(matching))
    IN {r \in [1..n -> [doc : matching, score : Scores]] :
           \A i, j \in 1..n : i # j => r[i].doc # r[j].doc}

(***************************************************************************)
(* RAGService.                                                             *)
(***************************************************************************)
SnippetLen == 200
Ellipsis == <<".", ".", ".">>

\* float(score)
float_of(score) == score

\* relevance_score clamped into 0..1
Citation_clamped(chunk, score) ==
    [chunk_id |-> chunk.chunk_id,
     text |-> IF Len(chunk.text) > SnippetLen
              THEN Upto(chunk.text, SnippetLen) \o Ellipsis ELSE chunk.text,
     page_number |-> chunk.page_number,
     char_start |-> chunk.char_start,
     char_end |-> chunk.char_end,
     relevance_score |-> IF score < 0 THEN 0 ELSE IF score > 100 THEN 100 ELSE score]

\* the snippet with the ellipsis put on at 200 characters already
Citation_ge(chunk, score) ==
    [chunk_id |-> chunk.chunk_id,
     text |-> IF Len(chunk.text) >= SnippetLen
              THEN Upto(chunk.text, SnippetLen) \o Ellipsis ELSE chunk.text,
     page_number |-> chunk.page_number,
     char_start |-> chunk.char_start,
     char_end |-> chunk.char_end,
     relevance_score |-> float_of(score)]

\* lines 126-133: the Citation of one retrieved chunk
Citation(chunk, score) ==
    [chunk_id |-> chunk.chunk_id,
     text |-> IF Len(chunk.text) > SnippetLen
              THEN Upto(chunk.text, SnippetLen) \o Ellipsis ELSE chunk.text,
     page_number |-> chunk.page_number,
     char_start |-> chunk.char_start,
     char_end |-> chunk.char_end,
     relevance_score |-> float_of(score)]

NoInfoAnswer == "I couldn't find any relevant information in the documents to answer this question."
LlmAnswer == "response.content"

\* query with the language model asked before the retrieval is looked at
query_llm_first(relevant_chunks, llm_ok) ==
    IF ~llm_ok
    THEN [raised |-> TRUE, answer |-> "", citations |-> <<>>, llm_invoked |-> TRUE]
    ELSE IF relevant_chunks = <<>>
    THEN [raised |-> FALSE, answer |-> NoInfoAnswer, citations |-> <<>>,
          llm_invoked |-> TRUE]
    ELSE [raised |-> FALSE, answer |-> LlmAnswer,
          citations |-> [i \in 1..Len(relevant_chunks) |->
                            Citation(relevant_chunks[i].chunk,
                                     relevant_chunks[i].score)],
          llm_invoked |-> TRUE]

\* RAGService.query from line 90 on, relevant_chunks being what
\* similarity_search returned: llm_ok says self.llm.invoke went through
query(relevant_chunks, llm_ok) ==
    IF relevant_chunks = <<>>
    THEN [raised |-> FALSE, answer |-> NoInfoAnswer, citations |-> <<>>,
          llm_invoked |-> FALSE]
    ELSE IF ~llm_ok
    THEN [raised |-> TRUE, answer |-> "", citations |-> <<>>, llm_invoked |-> TRUE]
    ELSE [raised |-> FALSE, answer |-> LlmAnswer,
          citations |-> [i \in 1..Len(relevant_chunks) |->
                            Citation(relevant_chunks[i].chunk,
                                     relevant_chunks[i].score)],
          llm_invoked |-> TRUE]

\* index_document, step 3 and the return: add_chunks, then the statistics.
\* raised names what was raised, "" when nothing was
index_chunks(idx, metadata, made, added) ==
    IF added.raised
    THEN [raised |-> "ChromaError", index |-> idx, page_count |-> 0,
          chunk_count |-> 0]
    ELSE [raised |-> "", index |-> added.index,
          page_count |-> metadata.page_count, chunk_count |-> Len(made)]

\* index_document, step 2: the default chunker on the extracted segments
index_segments(idx, document_id, filename, r, made, add_ok) ==
    IF r.raised # ""
    THEN [raised |-> r.raised, index |-> idx, page_count |-> 0,
          chunk_count |-> 0]
    ELSE index_chunks(idx, r.metadata, made, add_chunks(idx, made, add_ok))

index_extracted(idx, document_id, filename, r, add_ok) ==
    index_segments(idx, document_id, filename, r,
                   chunk_segments(IntelligentChunker(NoneInt, NoneInt),
                                  r.segments, document_id, filename),
                   add_ok)

\* RAGService.index_document(document_id, filename, file_path)
index_document(idx, document_id, filename, upload_path, add_ok) ==
    index_extracted(idx, document_id, filename,
                    extract_text_with_positions(upload_path), add_ok)

(***************************************************************************)
(* The endpoints: POST /api/upload, DELETE /api/documents/{id},            *)
(* POST /api/query.                                                        *)
(***************************************************************************)
\* the file index_document reads: "{document_id}{file_ext}", the uuid
\* standing as one dot-free character.  there: the file is still where the
\* upload saved it; reading a file that is gone raises as reading a corrupt
\* one does
UploadPath(file_ext, f, there) ==
    [name |-> <<"u">> \o file_ext, body |-> f.body,
     corrupt |-> (f.corrupt \/ ~there)]

\* lines 65-79: the auto-cleanup loop on the collection
cleanup_index(idx, processed, failed) ==
    {e \in idx : \A d \in (processed \ failed) :
                     e \in delete_document(idx, d, TRUE).index}

\* lines 72-76: the auto-cleanup loop on the upload directory
cleanup_files(dir, processed, stuck) ==
    {u \in dir : u[1] \notin (processed \ stuck)}

\* lines 44-51: the extension check, made before the file is read
extension_refused(f) ==
    ~InList(Lower(Suffix(f.name)), get_supported_extensions)

\* the HTTPException(status_code=400) of lines 47-50 and 58-61
Refusal == [op |-> "upload", status |-> 400, document_id |-> 0, detail |-> "HTTPException"]

\* the size check made after the auto-cleanup
size_check_and_cleanup_swapped(idx, dir, too_big, processed, failed, stuck) ==
    [refused |-> too_big,
     index |-> cleanup_index(idx, processed, failed),
     upload_dir |-> cleanup_files(dir, processed, stuck)]

\* upload_document(file), lines 55-80, when await file.read() has returned:
\* the size check, then the auto-cleanup.  too_big: the size check fails.
\* processed: the documents the auto-cleanup loop got to; failed: those
\* whose delete_document returned False; stuck: the one whose os.remove
\* raised
size_check_and_cleanup(idx, dir, too_big, processed, failed, stuck) ==
    IF too_big
    THEN [refused |-> TRUE, index |-> idx, upload_dir |-> dir]
    ELSE [refused |-> FALSE,
          index |-> cleanup_index(idx, processed, failed),
          upload_dir |-> cleanup_files(dir, processed, stuck)]

\* lines 82-90: the uuid is taken and the file saved under it with its
\* original extension.  open(upload_path, "wb") raises when the upload
\* directory is missing (dir_exists false), and the handler answers 500
\* (lines 120-125)
save_upload(dir, id, file_ext, dir_exists) ==
    IF dir_exists
    THEN [raised |-> "", upload_dir |-> dir \cup {<<id, file_ext>>}]
    ELSE [raised |-> "FileNotFoundError", upload_dir |-> dir]

\* lines 100-125: the answer.  When index_document raised (raised), the
\* saved file is removed if os.path.exists found it (exists; lines 114-115)
\* and the answer is 500 with what index_document raised; when os.remove
\* raises (remove_ok false: the file is gone by then, or cannot be removed)
\* its error takes the place of that one
answer_upload(dir, id, file_ext, raised, exists, remove_ok) ==
    IF raised = ""
    THEN [upload_dir |-> dir,
          response |-> [op |-> "upload", status |-> 200, document_id |-> id,
                        detail |-> ""]]
    ELSE IF exists /\ ~remove_ok
    THEN [upload_dir |-> dir,
          response |-> [op |-> "upload", status |-> 500, document_id |-> id,
                        detail |-> IF <<id, file_ext>> \in dir
                                   THEN "OSError" ELSE "FileNotFoundError"]]
    ELSE [upload_dir |-> IF exists THEN dir \ {<<id, file_ext>>} ELSE dir,
          response |-> [op |-> "upload", status |-> 500, document_id |-> id,
                        detail |-> raised]]

\* delete_document(document_id) of api/documents.py, lines 102-118, after
\* the chunks are deleted.  exists: what os.path.exists(pdf_path) answered
\* (line 103); remove_ok: os.remove did not raise (it raises when the file
\* is gone by then); when it raises the answer is 500
remove_and_answer(dir, document_id, exists, remove_ok) ==
    IF exists /\ ~remove_ok
    THEN [upload_dir |-> dir,
          response |-> [op |-> "delete", status |-> 500,
                        document_id |-> document_id]]
    ELSE [upload_dir |-> IF exists THEN dir \ {<<document_id, ExtPdf>>}
                         ELSE dir,
          response |-> [op |-> "delete", status |-> 200,
                        document_id |-> document_id]]

\* query_documents(request): results is what the index returned to the
\* search, search_ok whether the search went through
query_documents(question, results, search_ok, llm_ok) ==
    LET r == query(similarity_search(results), llm_ok)
    IN IF Strip(question) = <<>>
       THEN [op |-> "query", status |-> 400, searched |-> FALSE,
             retrieved |-> <<>>, llm_invoked |-> FALSE,
             answer |-> "", citations |-> <<>>]
       ELSE IF ~search_ok
       THEN [op |-> "query", status |-> 500, searched |-> FALSE,
             retrieved |-> <<>>, llm_invoked |-> FALSE,
             answer |-> "", citations |-> <<>>]
       ELSE [op |-> "query", status |-> IF r.raised THEN 500 ELSE 200,
             searched |-> TRUE, retrieved |-> results,
             llm_invoked |-> r.llm_invoked,
             answer |-> r.answer, citations |-> r.citations]

\* the uploads tried: plain text of one and of two paragraphs, a blank
\* text, a format the extractor has no routine for, a format the endpoint
\* refuses, a PDF that cannot be read, a PDF of two pages
UploadFiles ==
    {File(FileName(ExtTxt), <<"a">>, FALSE),
     File(FileName(ExtTxt), <<"a", NL, NL, "b">>, FALSE),
     File(FileName(ExtTxt), <<SP>>, FALSE),
     File(FileName(ExtRtf), <<"a">>, FALSE),
     File(FileName(<<".", "e", "x", "e">>), <<"a">>, FALSE),
     File(FileName(ExtPdf), << <<"a">> >>, TRUE),
     File(FileName(<<".", "P", "D", "F">>), << <<"a">>, <<"b">> >>, FALSE)}

\* the upload that is also tried with a size over the limit
BigFiles == {File(FileName(ExtTxt), <<"a">>, FALSE)}

Questions == {<<"q">>, <<SP>>}

InitApp ==
    /\ pc = "idle"
    /\ file = NoFile
    /\ chunker = IntelligentChunker(NoneInt, NoneInt)
    /\ segments = <<>>
    /\ chunks = <<>>
    /\ outcome = NoOutcome
    /\ AppIdle
    /\ MergeIdle

\* the index and the upload directory as a request finds them
Found == [index |-> index, upload_dir |-> upload_dir]

\* POST /api/upload with one of files arrives, while fresh ids last for it
\* and for the uploads that wait: the extension check (lines 44-51) refuses
\* it at once, or the coroutine waits in await file.read() (line 54) and
\* other requests may run.  too_big: the file sent is over
\* settings.max_file_size_bytes
UploadBegin(files, limit) ==
    /\ handler = NoHandler
    /\ next_id + BagCardinality(reading) <= limit
    /\ \E f \in files :
       \E too_big \in (IF f \in BigFiles THEN BOOLEAN ELSE {FALSE}) :
          IF extension_refused(f)
          THEN /\ response' = Refusal
               /\ before' = Found
               /\ UNCHANGED reading
          ELSE /\ reading' = reading (+) SetToBag({
                      [file |-> f, too_big |-> too_big,
                       arrived |-> IF too_big THEN Found ELSE NoSnapshot]})
               /\ UNCHANGED <<response, before>>
    /\ UNCHANGED <<index, upload_dir, next_id, handler, script, uploads_exists>>
    /\ UNCHANGED pipeVars
    /\ UNCHANGED mergeVars

\* the upload u goes on after its size check and auto-cleanup gave r
Resumed(u, r) ==
    /\ index' = r.index
    /\ upload_dir' = r.upload_dir
    /\ IF r.refused
       THEN /\ response' = Refusal
            /\ before' = u.arrived
            /\ UNCHANGED handler
       ELSE /\ handler' = [NoHandler EXCEPT !.op = "upload", !.pos = "save",
                                            !.file = u.file, !.found = Found]
            /\ response' = NoResponse
            /\ before' = NoSnapshot

\* await file.read() returns to one of the waiting uploads, which runs the
\* size check and the auto-cleanup (lines 55-80)
UploadResume(limit) ==
    /\ handler = NoHandler
    /\ next_id <= limit
    /\ \E u \in BagToSet(reading), list_ok \in BOOLEAN :
       \E processed \in SUBSET list_documents(index, list_ok) :
       \E failed \in SUBSET processed :
       \E stuck \in SUBSET {d \in processed : \E v \in upload_dir : v[1] = d} :
          /\ Cardinality(stuck) <= 1
          /\ stuck = {} => processed = list_documents(index, list_ok)
          /\ Resumed(u, size_check_and_cleanup(index, upload_dir, u.too_big,
                                               processed, failed, stuck))
          /\ reading' = reading (-) SetToBag({u})
    /\ UNCHANGED <<next_id, script, uploads_exists>>
    /\ UNCHANGED pipeVars
    /\ UNCHANGED mergeVars

\* the upload goes on after saving its file gave r
Saved(r) ==
    /\ upload_dir' = r.upload_dir
    /\ IF r.raised # ""
       THEN /\ response' = [op |-> "upload", status |-> 500,
                            document_id |-> next_id, detail |-> r.raised]
            /\ before' = handler.found
            /\ handler' = NoHandler
       ELSE /\ handler' = [handler EXCEPT !.pos = "index",
                                          !.document_id = next_id]
            /\ UNCHANGED <<response, before>>

\* lines 82-90: the upload takes its uuid and saves the file
UploadSave ==
    /\ handler.op = "upload"
    /\ handler.pos = "save"
    /\ next_id' = next_id + 1
    /\ Saved(save_upload(upload_dir, next_id, Lower(Suffix(handler.file.name)),
                         uploads_exists))
    /\ UNCHANGED <<index, reading, script, uploads_exists>>
    /\ UNCHANGED pipeVars
    /\ UNCHANGED mergeVars

\* the upload goes on after step 1 of index_document gave r: the chunker
\* and add_chunks come next, or the except clause of line 112
Extracts(r) ==
    handler' = [handler EXCEPT !.raised = r.raised,
                    !.pos = IF r.raised = "" THEN "add" ELSE "exists"]

\* lines 92-98, rag_service.index_document step 1: the extractor reads the
\* saved file
UploadIndex ==
    /\ handler.op = "upload"
    /\ handler.pos = "index"
    /\ Extracts(extract_text_with_positions(
                    UploadPath(Lower(Suffix(handler.file.name)), handler.file,
                               <<handler.document_id,
                                 Lower(Suffix(handler.file.name))>>
                                   \in upload_dir)))
    /\ UNCHANGED <<index, upload_dir, next_id, response, before, reading,
                   script, uploads_exists>>
    /\ UNCHANGED pipeVars
    /\ UNCHANGED mergeVars

\* the upload goes on after index_document gave r
Indexed(r) ==
    /\ index' = r.index
    /\ handler' = [handler EXCEPT !.raised = r.raised,
                       !.pos = IF r.raised = "" THEN "answer" ELSE "exists"]

\* lines 92-98, rag_service.index_document steps 2 and 3: the chunker on the
\* segments step 1 read (the file was there and readable then), and
\* vector_store.add_chunks on the collection as it is now
UploadAdd ==
    /\ handler.op = "upload"
    /\ handler.pos = "add"
    /\ \E add_ok \in BOOLEAN :
          Indexed(index_document(
                     index, handler.document_id, handler.file.name,
                     UploadPath(Lower(Suffix(handler.file.name)), handler.file,
                                TRUE),
                     add_ok))
    /\ UNCHANGED <<upload_dir, next_id, response, before, reading, script,
                   uploads_exists>>
    /\ UNCHANGED pipeVars
    /\ UNCHANGED mergeVars

\* the handler answers r.response and is done
Answers(r) ==
    /\ upload_dir' = r.upload_dir
    /\ response' = r.response
    /\ before' = handler.found
    /\ handler' = NoHandler

\* lines 112-114: index_document raised; os.path.exists(upload_path)
UploadExists ==
    /\ handler.op = "upload"
    /\ handler.pos = "exists"
    /\ handler' = [handler EXCEPT !.pos = "answer",
                       !.exists = <<handler.document_id,
                                    Lower(Suffix(handler.file.name))>>
                                      \in upload_dir]
    /\ UNCHANGED <<index, upload_dir, next_id, response, before, reading,
                   script, uploads_exists>>
    /\ UNCHANGED pipeVars
    /\ UNCHANGED mergeVars

\* lines 100-125: the upload answers, after os.remove(upload_path) when
\* index_document raised and the file was found.  remove_ok is held fixed
\* when os.remove is not reached, and os.remove raises when the file is gone
UploadAnswer ==
    /\ handler.op = "upload"
    /\ handler.pos = "answer"
    /\ \E remove_ok \in (IF ~handler.exists THEN {TRUE}
                          ELSE IF <<handler.document_id,
                                    Lower(Suffix(handler.file.name))>>
                                      \in upload_dir
                          THEN BOOLEAN ELSE {FALSE}) :
          Answers(answer_upload(upload_dir, handler.document_id,
                                Lower(Suffix(handler.file.name)),
                                handler.raised, handler.exists, remove_ok))
    /\ UNCHANGED <<index, next_id, reading, script, uploads_exists>>
    /\ UNCHANGED pipeVars
    /\ UNCHANGED mergeVars

UploadArrives == UploadBegin(UploadFiles, MaxUploads)

UploadReads == UploadResume(MaxUploads)

\* the delete endpoint goes on after rag_service.delete_document gave r
Deleted(document_id, r) ==
    /\ index' = r.index
    /\ IF ~r.success
       THEN /\ response' = [op |-> "delete", status |-> 404,
                            document_id |-> document_id]
            /\ before' = Found
            /\ UNCHANGED handler
       ELSE /\ handler' = [NoHandler EXCEPT !.op = "delete", !.pos = "exists",
                                            !.document_id = document_id,
                                            !.found = Found]
            /\ response' = NoResponse
            /\ before' = NoSnapshot

\* DELETE /api/documents/{document_id}, lines 91-100: the chunks are
\* deleted, or the answer is 404
DeleteDocument ==
    /\ handler = NoHandler
    /\ \E document_id \in 1..MaxUploads, ok \in BOOLEAN :
          Deleted(document_id, delete_document(index, document_id, ok))
    /\ UNCHANGED <<upload_dir, next_id, reading, script, uploads_exists>>
    /\ UNCHANGED pipeVars
    /\ UNCHANGED mergeVars

\* lines 102-103: os.path.exists(pdf_path)
DeleteExists ==
    /\ handler.op = "delete"
    /\ handler.pos = "exists"
    /\ handler' = [handler EXCEPT !.pos = "remove",
                       !.exists = <<handler.document_id, ExtPdf>> \in upload_dir]
    /\ UNCHANGED <<index, upload_dir, next_id, response, before, reading,
                   script, uploads_exists>>
    /\ UNCHANGED pipeVars
    /\ UNCHANGED mergeVars

\* lines 104-118: os.remove(pdf_path) when the file was found, and the
\* answer.  remove_ok is held fixed when os.remove is not reached, and
\* os.remove raises when the file is gone
DeleteRemove ==
    /\ handler.op = "delete"
    /\ handler.pos = "remove"
    /\ \E remove_ok \in (IF ~handler.exists THEN {TRUE}
                          ELSE IF <<handler.document_id, ExtPdf>> \in upload_dir
                          THEN BOOLEAN ELSE {FALSE}) :
          Answers(remove_and_answer(upload_dir, handler.document_id,
                                    handler.exists, remove_ok))
    /\ UNCHANGED <<index, next_id, reading, script, uploads_exists>>
    /\ UNCHANGED pipeVars
    /\ UNCHANGED mergeVars

\* POST /api/query.  What a request never reads is held fixed: a refused
\* request and one whose search raises get no results, and the language
\* model of an empty retrieval is not asked
Query ==
    /\ handler = NoHandler
    /\ \E question \in Questions, search_ok \in BOOLEAN, llm_ok \in BOOLEAN :
       \E document_id \in (IF Strip(question) = <<>> \/ ~search_ok
                            THEN {0} ELSE 0..MaxUploads) :
       \E max_citations \in (IF Strip(question) = <<>> \/ ~search_ok
                              THEN {1} ELSE 1..MaxCitations) :
       \E results \in (IF Strip(question) = <<>> \/ ~search_ok
                        THEN {<<>>}
                        ELSE SearchResults(index, document_id, max_citations)) :
          /\ Strip(question) = <<>> => search_ok
          /\ results = <<>> => llm_ok
          /\ response' = query_documents(question, results, search_ok, llm_ok)
    /\ before' = Found
    /\ UNCHANGED <<index, upload_dir, next_id, reading, handler, script,
                   uploads_exists>>
    /\ UNCHANGED pipeVars
    /\ UNCHANGED mergeVars

\* clear_database() of clear_database.py, a script run next to the server:
\* its file-system calls are steps of their own; requests, and the steps of
\* the handler that is running, come between them.  A step of the script is told from a request by the response
ScriptStep ==
    /\ response' = [op |-> "clear_database", status |-> 0]
    /\ before' = NoSnapshot
    /\ UNCHANGED <<next_id, reading, handler>>
    /\ UNCHANGED pipeVars
    /\ UNCHANGED mergeVars

\* lines 11-16: ./chroma_db is removed when it is there.  rmtree raises
\* (the script ends there) or returns; the collection of the running server
\* is gone with its directory or still served from what the client holds
ClearChroma ==
    /\ script = ""
    /\ \E chroma_exists \in BOOLEAN, rmtree_ok \in BOOLEAN :
          /\ ~chroma_exists => rmtree_ok
          /\ index' \in (IF chroma_exists /\ rmtree_ok THEN {{}, index}
                          ELSE {index})
          /\ script' = IF rmtree_ok THEN "uploads" ELSE ""
    /\ UNCHANGED <<upload_dir, uploads_exists>>
    /\ ScriptStep

\* lines 18-20 and 23-24: ./uploads is removed with its files when it is
\* there.  When rmtree raises the script ends and the files it had not got
\* to stay
ClearUploads ==
    /\ script = "uploads"
    /\ \E rmtree_ok \in BOOLEAN :
       \E left \in (IF uploads_exists /\ ~rmtree_ok THEN SUBSET upload_dir
                     ELSE {{}}) :
          /\ ~uploads_exists => rmtree_ok
          /\ upload_dir' = left
          /\ uploads_exists' = (uploads_exists /\ ~rmtree_ok)
          /\ script' = IF uploads_exists /\ rmtree_ok THEN "mkdir" ELSE ""
    /\ UNCHANGED index
    /\ ScriptStep

\* line 21: uploads_path.mkdir(), after which the script ends
MakeUploads ==
    /\ script = "mkdir"
    /\ uploads_exists' = TRUE
    /\ script' = ""
    /\ UNCHANGED <<index, upload_dir>>
    /\ ScriptStep

ClearDatabase ==
    \/ ClearChroma
    \/ ClearUploads
    \/ MakeUploads

Next ==
    \/ UploadArrives
    \/ UploadReads
    \/ UploadSave
    \/ UploadIndex
    \/ UploadAdd
    \/ UploadExists
    \/ UploadAnswer
    \/ DeleteDocument
    \/ DeleteExists
    \/ DeleteRemove
    \/ ClearDatabase

Init == InitApp

Spec == Init /\ [][Next]_vars

(***************************************************************************)
(* Queries over an index that holds chunks at the snippet limit: uploads   *)
(* of texts whose paragraphs are 199, 200 and 201 characters long, two     *)
(* words each.                                                             *)
(***************************************************************************)
MaxLongUploads == 1

Words(c, n) == Repeat(c, n - 100) \o <<SP>> \o Repeat(c, 99)

LongFiles ==
    {File(FileName(ExtTxt),
          Words("a", SnippetLen) \o <<NL, NL>> \o Words("b", SnippetLen + 1),
          FALSE),
     File(FileName(ExtTxt),
          Words("c", SnippetLen - 1) \o <<NL, NL, "d">>,
          FALSE)}

UploadLongArrives == UploadBegin(LongFiles, MaxLongUploads)

UploadLongReads == UploadResume(MaxLongUploads)

\* a query leaves the services as they are and an upload overwrites the
\* response, so the requests after a first query reach no state that the
\* same uploads followed by one query do not: behaviours are followed up to
\* their first query
NextQuery ==
    \/ response.op # "query" /\ UploadLongArrives
    \/ response.op # "query" /\ UploadLongReads
    \/ response.op # "query" /\ UploadSave
    \/ response.op # "query" /\ UploadIndex
    \/ response.op # "query" /\ UploadAdd
    \/ response.op # "query" /\ UploadExists
    \/ response.op # "query" /\ UploadAnswer
    \/ response.op # "query" /\ Query

SpecQuery == Init /\ [][NextQuery]_vars

(***************************************************************************)
(* Properties of the chunker (SpecChunk).                                  *)
(***************************************************************************)
\* hay[a:b]
Slice(hay, a, b) == SubSeq(hay, a + 1, IF b < Len(hay) THEN b ELSE Len(hay))

\* the chunk texts of the k-th segment
Pieces(k) == split_text(chunker, segments[k].text)

RECURSIVE FirstChunk(_)
\* how many chunks precede those of the k-th segment
FirstChunk(k) == IF k = 1 THEN 0 ELSE FirstChunk(k - 1) + Len(Pieces(k - 1))

\* the i-th chunk of the k-th segment
ChunkOf(k, i) == chunks[FirstChunk(k) + i]

\* C1: in chunk_segments, whenever a chunk text is found in the
\* not-yet-consumed slice of its segment's text at offset m from the cursor
\* c, the chunk has char_start = segment.char_start + c + m and
\* char_end = char_start + len(chunk text), and the cursor moves to
\* c + m + len(chunk text).
C1_OffsetRemapping ==
    pc = "chunked" =>
        \A k \in 1..Len(segments) : \A i \in 1..Len(Pieces(k)) :
            LET text == segments[k].text
                c == offset_before(text, Pieces(k), i)
                m == Find(From(text, c), Pieces(k)[i])
            IN m # -1 =>
                /\ ChunkOf(k, i).char_start = segments[k].char_start + c + m
                /\ ChunkOf(k, i).char_end
                       = ChunkOf(k, i).char_start + Len(Pieces(k)[i])
                /\ next_offset(text, c, Pieces(k)[i]) = c + m + Len(Pieces(k)[i])

\* C5: the chunks of one chunk_segments call have chunk_index 0, 1, ..., n-1
\* in emission order, each chunk_id is "{document_id}_chunk_{chunk_index}",
\* and the chunk_ids are pairwise distinct.
C5_ChunkIdentity ==
    pc = "chunked" =>
        /\ \A i \in 1..Len(chunks) :
              /\ chunks[i].chunk_index = i - 1
              /\ chunks[i].chunk_id = <<chunks[i].document_id, "_chunk_", i - 1>>
              /\ chunks[i].document_id = "doc"
        /\ \A i, j \in 1..Len(chunks) :
              i # j => chunks[i].chunk_id # chunks[j].chunk_id

\* two segments that are both split into several chunks
C5_Witness ==
    /\ pc = "chunked"
    /\ Len(segments) = 2
    /\ Len(Pieces(1)) >= 2
    /\ Len(Pieces(2)) >= 2
    /\ Len(chunks) = Len(Pieces(1)) + Len(Pieces(2))

(***************************************************************************)
(* Properties of the extractor registry (SpecExtract).                     *)
(***************************************************************************)
\* C2: every segment the .txt extractor emits addresses its own text in the
\* file: content[char_start:char_end] = segment.text.
C2_TxtAbsoluteOffsets ==
    (pc = "segmented" /\ dispatch(file.name) = "txt") =>
        \A i \in 1..Len(segments) :
            Slice(file.body, segments[i].char_start, segments[i].char_end)
                = segments[i].text

\* C6: extract_text_with_positions raises the unsupported-format error
\* exactly when the lower-cased extension is not in SUPPORTED_EXTENSIONS.
C6_RegistryAgrees ==
    outcome.op = "extract_text_with_positions" =>
        (outcome.raised = "ValueError"
            <=> ~InList(Lower(Suffix(file.name)), SUPPORTED_EXTENSIONS))


(***************************************************************************)
(* Properties of the query path (SpecQuery).                               *)
(***************************************************************************)
\* a query that was answered from a non-empty retrieval
Answered ==
    /\ response.op = "query"
    /\ response.status = 200
    /\ response.retrieved # <<>>

\* C3: a query over a non-empty ranked result list returns one citation per
\* (chunk, score) pair, in the order of the list, whose chunk_id,
\* page_number, char_start and char_end are those of the entry's metadata
\* and whose relevance_score is the score the index returned, unscaled and
\* unclamped.
C3_CitationProvenance ==
    Answered =>
       /\ Len(response.citations) = Len(response.retrieved)
       /\ \A i \in 1..Len(response.retrieved) :
             LET stored == response.retrieved[i].doc.metadata
                 cited == response.citations[i]
             IN /\ cited.chunk_id = stored.chunk_id
                /\ cited.page_number = stored.page
                /\ cited.char_start = stored.char_start
                /\ cited.char_end = stored.char_end
                /\ cited.relevance_score = response.retrieved[i].score

\* two chunks retrieved, the first scored above 1 and the second below 0
C3_Witness ==
    /\ Answered
    /\ Len(response.retrieved) = 2
    /\ response.retrieved[1].score > 100
    /\ response.retrieved[2].score < 0
    /\ response.retrieved[1].doc.metadata.char_start
          # response.retrieved[2].doc.metadata.char_start

\* C4: the citation of a retrieved chunk carries the first 200 characters of
\* the chunk's text followed by "..." when the text is longer than 200
\* characters and the text unchanged otherwise, so that no citation text is
\* longer than 203 characters and a text of exactly 200 gets no ellipsis.
C4_SnippetLaw ==
    Answered =>
       \A i \in 1..Len(response.citations) :
          LET text == response.retrieved[i].doc.page_content
              snippet == response.citations[i].text
          IN /\ Len(text) > 200 =>
                   snippet = SubSeq(text, 1, 200) \o <<".", ".", ".">>
             /\ Len(text) <= 200 => snippet = text
             /\ Len(snippet) <= 203

\* one answer citing a chunk of exactly 200 characters and one of 201
C4_Witness ==
    /\ Answered
    /\ \E i, j \in 1..Len(response.citations) :
          /\ Len(response.retrieved[i].doc.page_content) = 200
          /\ Len(response.citations[i].text) = 200
          /\ Len(response.retrieved[j].doc.page_content) = 201
          /\ Len(response.citations[j].text) = 203

\* C9: when the search of the index returns the empty list, query returns
\* normally with the fixed answer and no citations, and the language model
\* is not invoked.
C9_EmptyRetrieval ==
    (response.op = "query" /\ response.searched /\ response.retrieved = <<>>)
       => /\ response.status = 200
          /\ response.answer = NoInfoAnswer
          /\ response.citations = <<>>
          /\ ~response.llm_invoked

\* an empty retrieval over an index that holds chunks
C9_Witness ==
    /\ response.op = "query"
    /\ response.searched
    /\ response.retrieved = <<>>
    /\ index # {}

(***************************************************************************)
(* Properties of uploads and deletions (Spec).                             *)
(***************************************************************************)
\* the entries of idx that belong to documents other than document_id
OtherDocuments(idx, document_id) ==
    {e \in idx : e.metadata.document_id # document_id}

\* C7: when an upload that passed the extension and size checks has failed
\* in extraction (the extractor rejects the format, or reading the file
\* raises), the chunks that the index holds of the documents uploaded
\* before it are those it held when the request arrived.
C7_FailedUploadIsolated ==
    (/\ response.op = "upload"
     /\ response.status = 500
     /\ response.detail \in {"ValueError", "Exception"})
       => OtherDocuments(index, response.document_id) = before.index

C10_MergeRule ==
    step.taken =>
       LET cur == step.current_chunk
           ret == step.last_merged
           end == IF cur.char_end < ret.char_end THEN cur.char_end
                  ELSE ret.char_end
           rule == /\ cur.page_number = ret.page_number
                   /\ cur.char_start < ret.char_end
                   /\ 2 * (end - cur.char_start) > Len(cur.text)
       IN /\ rule => merged = step.merged
          /\ ~rule => /\ merged = Append(step.merged, step.current_ref)
                      /\ heap[step.current_ref] = cur
                      /\ heap[step.merged[Len(step.merged)]] = ret
          /\ cur.page_number # ret.page_number => merged # step.merged

\* a chunk of 15 characters that starts 10 before the end of the retained
\* chunk has been merged
C10_Witness ==
    /\ step.taken
    /\ Len(step.current_chunk.text) = 15
    /\ step.last_merged.char_end - step.current_chunk.char_start = 10
    /\ merged = step.merged
    /\ heap[merged[Len(merged)]].char_end = step.current_chunk.char_end
\* the last iteration of the loop merged its current chunk
Merged == step.taken /\ merged = step.merged

\* C11: a merge makes the retained chunk's text its old text followed by
\* the current chunk's text past the overlap and its char_end the current
\* chunk's char_end, and that char_end is not below the retained chunk's
\* char_end before the merge.
C11_MergeExtends ==
    Merged =>
       LET cur == step.current_chunk
           ret == step.last_merged
           now == heap[merged[Len(merged)]]
           end == IF cur.char_end < ret.char_end THEN cur.char_end
                  ELSE ret.char_end
       IN /\ now.text = ret.text \o SubSeq(cur.text, end - cur.char_start + 1,
                                            Len(cur.text))
          /\ now.char_end = cur.char_end
          /\ now.char_end >= ret.char_end

\* C12: a second call of merge_overlapping_chunks on the list the first
\* call returned returns that list again, chunk for chunk.
C12_MergeIdempotent ==
    (pc = "returned" /\ Len(returned) = 2) => returned[2] = returned[1]

(***************************************************************************)
(* Further properties of the chunker (SpecChunk).                          *)
(***************************************************************************)
\* the texts of the chunks made from the k-th segment
ChunkTexts(k) == [i \in 1..Len(Pieces(k)) |-> ChunkOf(k, i).text]

\* C13: under a configuration with chunk_overlap > 0 the chunks made from a
\* segment hold, taken together, at least as many characters as the
\* segment's text (a trimmed text, as the extractors emit it), also when
\* the segment is split at a separator that the splitter strips.
C13_ChunkCoverage ==
    (pc = "chunked" /\ chunker.chunk_overlap > 0) =>
        \A k \in 1..Len(segments) :
            Strip(segments[k].text) = segments[k].text
                => SumLen(ChunkTexts(k)) >= Len(segments[k].text)

(***************************************************************************)
(* Properties of the extractors (SpecExtract).                             *)
(***************************************************************************)
\* extract_text_with_positions has returned the segments
Extracted ==
    /\ outcome.op = "extract_text_with_positions"
    /\ outcome.raised = ""

\* C14: whatever the format, every emitted segment has a text that is not
\* empty after trimming and char_start <= char_end, and the segments of a
\* document come in non-decreasing char_start order.
C14_SegmentsWellFormed ==
    Extracted =>
        /\ \A i \in 1..Len(segments) :
              /\ Strip(segments[i].text) # <<>>
              /\ segments[i].char_start <= segments[i].char_end
        /\ \A i, j \in 1..Len(segments) :
              i < j => segments[i].char_start <= segments[j].char_start

\* a PDF of two pages, the first with two paragraphs, all emitted
C14_Witness ==
    /\ Extracted
    /\ dispatch(file.name) = "pdf"
    /\ Len(segments) = 3
    /\ segments[2].page_number = 1
    /\ segments[3].page_number = 2
    /\ segments[2].char_start > 0

\* C15: for every emitted segment char_end - char_start is the length of
\* the text it was built from, so that the stored text is never longer than
\* the range: len(text) <= char_end - char_start, spreadsheet segments with
\* their sheet-name line included.
C15_TextWithinRange ==
    Extracted =>
        \A i \in 1..Len(segments) :
            Len(segments[i].text) <= segments[i].char_end - segments[i].char_start

(***************************************************************************)
(* Plain text from the file to the chunks (SpecExtract).                   *)
(***************************************************************************)
\* the paragraphs of the file's content and those that are not blank
Paragraphs == Split(file.body, <<NL, NL>>)
NonBlank == SelectSeq(Paragraphs, LAMBDA para : Strip(para) # <<>>)

\* a plain-text file was extracted and chunked, and no paragraph is longer
\* than chunk_size
TxtChunked ==
    /\ pc = "chunked"
    /\ dispatch(file.name) = "txt"
    /\ \A i \in 1..Len(NonBlank) : Len(Strip(NonBlank[i])) <= chunker.chunk_size

\* C16: for a plain-text file of paragraphs separated by "\n\n", none longer
\* than chunk_size, there is one segment for each paragraph that is not
\* blank and one chunk for each segment, the i-th chunk's text is the
\* trimmed i-th such paragraph, and, no paragraph being blank, its
\* char_start is the sum of length + 2 over the paragraphs before it.
C16_PlainTextEndToEnd ==
    TxtChunked =>
        /\ Len(segments) = Len(NonBlank)
        /\ Len(chunks) = Len(segments)
        /\ \A i \in 1..Len(chunks) :
              /\ chunks[i].text = Strip(NonBlank[i])
              /\ Len(NonBlank) = Len(Paragraphs) =>
                    chunks[i].char_start
                        = SumLen(SubSeq(Paragraphs, 1, i - 1)) + 2 * (i - 1)

\* "Alpha beta.\n\nGamma delta.": two segments, two chunks, the first chunk
\* "Alpha beta.", the second starting at 13
C16_Witness ==
    /\ TxtChunked
    /\ file.body = AlphaGamma
    /\ Len(segments) = 2
    /\ Len(chunks) = 2
    /\ chunks[1].text = SubSeq(AlphaGamma, 1, 11)
    /\ chunks[2].char_start = 13

(***************************************************************************)
(* A paragraph longer than chunk_size (SpecChunk).                         *)
(***************************************************************************)
\* the k-th segment's text holds none of the separators and is longer than
\* chunk_size, by no more than chunk_size - chunk_overlap
Oversized(k) ==
    /\ \A i \in 1..Len(segments[k].text) : segments[k].text[i] \notin Whitespace
    /\ Len(segments[k].text) > chunker.chunk_size
    /\ Len(segments[k].text) <= 2 * chunker.chunk_size - chunker.chunk_overlap

\* C17: a segment whose text holds no separator and is longer than
\* chunk_size by at most chunk_size - chunk_overlap is split into exactly
\* two chunks, neither longer than chunk_size, the second beginning with the
\* last chunk_overlap characters of the first, both on the segment's page.
C17_OversizedParagraph ==
    pc = "chunked" =>
        \A k \in 1..Len(segments) :
            Oversized(k) =>
                /\ Len(Pieces(k)) = 2
                /\ Len(segments) = 1 => Len(chunks) = 2
                /\ LET first == ChunkOf(k, 1)
                       second == ChunkOf(k, 2)
                       overlap == chunker.chunk_overlap
                   IN /\ Len(first.text) <= chunker.chunk_size
                      /\ Len(second.text) <= chunker.chunk_size
                      /\ SubSeq(second.text, 1, overlap)
                            = SubSeq(first.text, Len(first.text) - overlap + 1,
                                     Len(first.text))
                      /\ first.page_number = segments[k].page_number
                      /\ second.page_number = segments[k].page_number

\* "aabab" under chunk_size 4 and chunk_overlap 2: "aaba" and "baab"-like
\* halves that share two characters
C17_Witness ==
    /\ pc = "chunked"
    /\ Len(segments) = 1
    /\ Oversized(1)
    /\ chunker.chunk_overlap = 2
    /\ Len(chunks) = 2
    /\ chunks[1].text[3] # chunks[1].text[4]
    /\ chunks[2].text[1] = chunks[1].text[3]
    /\ chunks[2].text[2] = chunks[1].text[4]

(***************************************************************************)
(* validate_document (SpecExtract).                                        *)
(***************************************************************************)
\* C18: validate_document raises nothing; it returns FALSE when the
\* extension is unsupported or the extraction raises, and TRUE whenever the
\* extraction of the file completes without raising.
C18_ValidateReportsExtraction ==
    (pc = "returned" /\ outcome.op = "validate_document") =>
        /\ outcome.raised = ""
        /\ outcome.value = (/\ is_supported(file.name)
                            /\ extract_text_with_positions(file).raised = "")

(***************************************************************************)
(* Constructing the chunker (SpecConfig): IntelligentChunker.__init__ is   *)
(* called with each argument left out (None) or supplied, and the chunker  *)
(* it returns then chunks one segment.                                     *)
(***************************************************************************)
\* the chunk_size and chunk_overlap arguments of the calls followed
SizeArgs == {NoneInt, 3, 4, 300, DefaultChunkSize}
OverlapArgs == {NoneInt, 0, 1, 2, DefaultChunkOverlap}

\* no chunker constructed yet
NoChunker == [chunk_size |-> NoneInt, chunk_overlap |-> NoneInt]

\* RecursiveCharacterTextSplitter(chunk_size, chunk_overlap, ...): the
\* constructor refuses an overlap larger than the chunk size
splitter_raises(self) ==
    IF self.chunk_overlap > self.chunk_size THEN "ValueError" ELSE ""

InitConfig ==
    /\ pc = "new"
    /\ file = NoFile
    /\ chunker = NoChunker
    /\ segments \in {<<TextSegment(t, 1, 0, Len(t))>> : t \in ShortTexts}
    /\ chunks = <<>>
    /\ outcome = NoOutcome
    /\ AppIdle
    /\ MergeIdle

\* IntelligentChunker(chunk_size, chunk_overlap); the outcome keeps the
\* arguments of the call
NewChunker(chunk_size, chunk_overlap) ==
    /\ pc = "new"
    /\ outcome' = [op |-> "IntelligentChunker",
                   raised |-> splitter_raises(
                                  IntelligentChunker(chunk_size, chunk_overlap)),
                   value |-> FALSE,
                   chunk_size |-> chunk_size,
                   chunk_overlap |-> chunk_overlap]
    /\ chunker' = IF outcome'.raised = ""
                  THEN IntelligentChunker(chunk_size, chunk_overlap)
                  ELSE NoChunker
    /\ pc' = IF outcome'.raised = "" THEN "segmented" ELSE "raised"
    /\ UNCHANGED <<file, segments, chunks>>
    /\ UNCHANGED appVars
    /\ UNCHANGED mergeVars

Construct == \E chunk_size \in SizeArgs, chunk_overlap \in OverlapArgs :
                 NewChunker(chunk_size, chunk_overlap)

NextConfig ==
    \/ Construct
    \/ ChunkSegments

SpecConfig == InitConfig /\ [][NextConfig]_vars

\* the value a caller asked for: the supplied one, the setting when left out
Supplied(x, setting) == IF x = NoneInt THEN setting ELSE x

\* C19: a chunker constructed without arguments has chunk_size 1000 and
\* chunk_overlap 200, and a chunker constructed with explicit values has
\* exactly the supplied chunk_size and chunk_overlap, a supplied
\* chunk_overlap of 0 included (stated for calls whose requested overlap
\* does not exceed the requested size).
C19_ChunkerConfiguration ==
    (outcome.op = "IntelligentChunker"
        /\ Supplied(outcome.chunk_overlap, DefaultChunkOverlap)
              <= Supplied(outcome.chunk_size, DefaultChunkSize)) =>
        /\ outcome.raised = ""
        /\ chunker.chunk_size = Supplied(outcome.chunk_size, DefaultChunkSize)
        /\ chunker.chunk_overlap
              = Supplied(outcome.chunk_overlap, DefaultChunkOverlap)

(***************************************************************************)
(* Chunk ranges against their segment's range (SpecChunk).                 *)
(***************************************************************************)
\* C20: every chunk that chunk_segments produces from a segment has
\* char_start >= segment.char_start and
\* char_end <= segment.char_end + chunk_overlap, however many chunks the
\* segment is split into.
C20_ChunkRangeNearSegment ==
    pc = "chunked" =>
        \A k \in 1..Len(segments) : \A i \in 1..Len(Pieces(k)) :
            /\ ChunkOf(k, i).char_start >= segments[k].char_start
            /\ ChunkOf(k, i).char_end
                  <= segments[k].char_end + chunker.chunk_overlap

(***************************************************************************)
(* The ranges of the chunks of one segment (SpecChunk).                    *)
(***************************************************************************)
\* C21: for consecutive chunks i and i+1 of one segment,
\* chunk[i].char_end <= chunk[i+1].char_start, whether the chunk text was
\* found in the rest of the segment text or not, and also when the two
\* texts share chunk_overlap characters.
C21_RangesOrderedDisjoint ==
    pc = "chunked" =>
        \A k \in 1..Len(segments) : \A i \in 1..(Len(Pieces(k)) - 1) :
            ChunkOf(k, i).char_end <= ChunkOf(k, i + 1).char_start

\* one segment split into three chunks, each beginning with the last
\* character of the one before: the second text is found in the rest of
\* the segment text, the third is not
C21_Witness ==
    /\ pc = "chunked"
    /\ Len(segments) = 1
    /\ Len(chunks) = 3
    /\ chunker.chunk_overlap = 1
    /\ chunks[2].text[1] = chunks[1].text[Len(chunks[1].text)]
    /\ chunks[3].text[1] = chunks[2].text[Len(chunks[2].text)]
    /\ Find(From(segments[1].text, chunks[2].char_start - segments[1].char_start),
            chunks[2].text) # -1
    /\ Find(From(segments[1].text, chunks[3].char_start - segments[1].char_start),
            chunks[3].text) = -1
    /\ chunks[1].char_end <= chunks[2].char_start
    /\ chunks[2].char_end <= chunks[3].char_start

(***************************************************************************)
(* Chunk metadata after merging (SpecMerge).                               *)
(***************************************************************************)
\* the metadata entries of a chunk equal the chunk's own fields
Mirrors(c) ==
    /\ c.metadata.page = c.page_number
    /\ c.metadata.char_start = c.char_start
    /\ c.metadata.char_end = c.char_end
    /\ c.metadata.chunk_id = c.chunk_id
    /\ c.metadata.document_id = c.document_id

\* C22: in every list merge_overlapping_chunks returns, after one pass or
\* two over chunks whose metadata mirrored them, every chunk's metadata
\* entries page, char_start, char_end, chunk_id and document_id equal the
\* chunk's page_number, char_start, char_end, chunk_id and document_id.
C22_MetadataMirrorsChunk ==
    (\A ref \in DOMAIN heap : pc = "called" /\ returned = <<>> => Mirrors(heap[ref]))
    /\ \A n \in 1..Len(returned) : \A i \in 1..Len(returned[n]) :
           Mirrors(returned[n][i])

(***************************************************************************)
(* The argument of merge_overlapping_chunks after the call (SpecMerge).    *)
(***************************************************************************)
\* C23: when merge_overlapping_chunks has returned, every chunk of the list
\* it was given has the text, char_start and char_end it had when the call
\* began, whether or not chunks were merged.
C23_MergeLeavesInput ==
    pc = "returned" =>
        \A i \in 1..Len(chunks) :
            /\ heap[chunks[i]].text = step.called_with[i].text
            /\ heap[chunks[i]].char_start = step.called_with[i].char_start
            /\ heap[chunks[i]].char_end = step.called_with[i].char_end

(***************************************************************************)
(* What a completed upload leaves in the index (Spec).                     *)
(***************************************************************************)
\* C24: whenever an upload has returned status 'completed' for document d,
\* the index holds chunks of no document other than d, also when a deletion
\* in the auto-cleanup reported failure or the cleanup raised.
C24_SingleActiveDocument ==
    (response.op = "upload" /\ response.status = 200) =>
        OtherDocuments(index, response.document_id) = {}

\* C25: whenever an upload has returned status 'completed' for document d,
\* the index holds at least one chunk whose document_id is d, so that
\* list_documents returns d and the chunk count of d is above 0; files whose
\* extraction yields no segment are included.
C25_CompletedUploadRetrievable ==
    (response.op = "upload" /\ response.status = 200) =>
        LET d == response.document_id
        IN /\ \E e \in index : e.metadata.document_id = d
           /\ d \in list_documents(index, TRUE)
           /\ get_document_chunk_count(index, d, TRUE) > 0

\* C26 as claimed: when an upload has been rejected with status 400, for
\* its extension or its size, the index and the files of the upload
\* directory are exactly those of the moment the request arrived.
C26_RejectedUploadChangesNothing ==
    (response.op = "upload" /\ response.status = 400) =>
        (index = before.index /\ upload_dir = before.upload_dir)

\* C26 as amended: the rejected upload itself changes nothing: the step
\* that refuses it with status 400 leaves the index and the files of the
\* upload directory exactly as they were (and takes no fresh id), and the
\* only step the request makes before it, entering the wait for the file to
\* be read, leaves them too.  (These are the steps of the server that start
\* and end with no handler running and give or keep an upload's status 400.)
C26_RejectionChangesNothing ==
    [][(/\ handler = NoHandler
        /\ handler' = NoHandler
        /\ \/ (response'.op = "upload" /\ response'.status = 400)
           \/ (reading' # reading /\ response' = response))
          => (index' = index /\ upload_dir' = upload_dir /\ next_id' = next_id)]_vars

\* an upload rejected while the index and the upload directory hold an
\* earlier document
C26_Witness ==
    /\ response.op = "upload"
    /\ response.status = 400
    /\ before.index # {}
    /\ before.upload_dir # {}
    /\ index = before.index
    /\ upload_dir = before.upload_dir

(***************************************************************************)
(* What DELETE /api/documents/{id} leaves behind (Spec).                   *)
(***************************************************************************)
\* C27: after the delete endpoint has returned success for document d,
\* the index holds no chunk of d and the upload directory holds no file
\* saved for d, whatever supported extension d was uploaded with.
C27_DeleteRemovesOriginal ==
    (response.op = "delete" /\ response.status = 200) =>
        LET d == response.document_id
        IN /\ \A e \in index : e.metadata.document_id # d
           /\ \A u \in upload_dir : u[1] # d

(***************************************************************************)
(* Rows of spreadsheets and .csv files (SpecExtract).                      *)
(***************************************************************************)
\* every cell of the .xlsx row is None or the empty string
EmptyXlsxRow(row) == \A j \in 1..Len(row) : CellStr(row[j]) = <<>>

\* every field of the .csv row is the empty string
EmptyCsvRow(row) == \A j \in 1..Len(row) : row[j] = <<>>

\* how many lines the text has
Lines(text) == Len(Split(text, <<NL>>))

\* C28: in .xlsx sheets and .csv files a row whose cells are all empty
\* (None or the empty string) contributes no line to the segment text,
\* whatever its number of columns: a segment has no more row lines than
\* its sheet or file has rows with a non-empty cell, and a sheet or file
\* with only such rows emits no segment.
C28_EmptyRowsDropped ==
    Extracted =>
        /\ Lower(Suffix(file.name)) = ExtXlsx =>
              /\ Len(segments)
                    <= Cardinality({s \in 1..Len(file.body) :
                          \E i \in 1..Len(file.body[s].rows) :
                              ~EmptyXlsxRow(file.body[s].rows[i])})
              /\ \A k \in 1..Len(segments) :
                    Lines(segments[k].text) - 1
                       <= Len(SelectSeq(file.body[segments[k].page_number].rows,
                                        LAMBDA row : ~EmptyXlsxRow(row)))
        /\ Lower(Suffix(file.name)) = ExtCsv =>
              /\ (\A i \in 1..Len(file.body) : EmptyCsvRow(file.body[i]))
                    => segments = <<>>
              /\ \A k \in 1..Len(segments) :
                    Lines(segments[k].text)
                       <= Len(SelectSeq(file.body, LAMBDA row : ~EmptyCsvRow(row)))

(***************************************************************************)
(* The pages of a PDF (SpecExtract).                                       *)
(***************************************************************************)
RECURSIVE TextBefore(_, _)
\* D_p: the sum of the text lengths of the pages before page p
TextBefore(pages, p) ==
    IF p = 1 THEN 0 ELSE TextBefore(pages, p - 1) + Len(pages[p - 1])

\* a PDF has been extracted
PdfExtracted == Extracted /\ Lower(Suffix(file.name)) = ExtPdf

\* C29: in PDF extraction, with D_p the sum of the text lengths of the
\* non-empty pages before page p, every segment of page p has
\* D_p <= char_start and char_end <= D_p + len(text of page p), and the
\* segments of different pages do not overlap.
C29_PagesKeptApart ==
    PdfExtracted =>
        /\ \A k \in 1..Len(segments) :
              LET p == segments[k].page_number
              IN /\ TextBefore(file.body, p) <= segments[k].char_start
                 /\ segments[k].char_end
                       <= TextBefore(file.body, p) + Len(file.body[p])
        /\ \A i, j \in 1..Len(segments) :
              segments[i].page_number < segments[j].page_number
                 => segments[i].char_end <= segments[j].char_start

\* two paragraphs on page 1, a page without text, and a segment on page 3
\* that starts where the text of page 1 ends
C29_Witness ==
    /\ PdfExtracted
    /\ Len(segments) = 3
    /\ segments[2].page_number = 1
    /\ file.body[2] = <<>>
    /\ segments[3].page_number = 3
    /\ segments[3].char_start = Len(file.body[1])
    /\ segments[3].char_start > 0

(***************************************************************************)
(* Chunks and the segments they come from (SpecChunk).                     *)
(***************************************************************************)
\* C30: chunk_segments emits the chunks grouped by segment in segment
\* order; each chunk's text is one of the pieces the splitter makes of the
\* text of that one segment, and lies within it; each chunk's page_number
\* and metadata page are the page_number of that segment.
C30_ChunkOfOneSegment ==
    pc = "chunked" =>
        /\ Len(chunks) = FirstChunk(Len(segments)) + Len(Pieces(Len(segments)))
        /\ \A k \in 1..Len(segments) : \A i \in 1..Len(Pieces(k)) :
              /\ ChunkOf(k, i).text = Pieces(k)[i]
              /\ Find(segments[k].text, ChunkOf(k, i).text) # -1
              /\ ChunkOf(k, i).page_number = segments[k].page_number
              /\ ChunkOf(k, i).metadata.page = segments[k].page_number

\* two segments on pages 1 and 2, the first split into two chunks and the
\* second into at least one
C30_Witness ==
    /\ pc = "chunked"
    /\ Len(segments) = 2
    /\ segments[1].page_number = 1
    /\ segments[2].page_number = 2
    /\ Len(Pieces(1)) = 2
    /\ Len(chunks) >= 3
    /\ chunks[2].page_number = 1
    /\ chunks[3].page_number = 2
    /\ chunks[3].text = Pieces(2)[1]
====
